---- MODULE Spec2Model ----
(***************************************************************************)
(* Model of the ingestion engine of oh-my-opencode-dashboard:              *)
(*   src/src/ingest/timeseries.ts  (deriveTimeSeriesActivity)              *)
(* The record store (session, message and part files) is the state an      *)
(* external writer fills; a call of deriveTimeSeriesActivity reads it in   *)
(* the order the code reads it and builds the five series.                 *)
(*                                                                         *)
(* Encoding.  Ids (session ids, message ids) are naturals standing for     *)
(* strings such as "msg_1" < "msg_2": localeCompare is the order of the    *)
(* numbers.  A JSON number that may be missing or of another type is a     *)
(* record [num |-> BOOLEAN, v |-> Int].  An agent label is a record        *)
(* [str |-> BOOLEAN, chars |-> sequence of one-character strings].         *)
(* Arrays are 1-based sequences: bucket index i of the code is element     *)
(* i + 1.                                                                  *)
(***************************************************************************)
EXTENDS Integers, Sequences, FiniteSets, TLC

VARIABLES
    sessions,       \* session records, in the order readAllSessionMetas lists them
    messages,       \* session id -> the files of its message directory, in listing order
    parts,          \* message id -> the files of its part directory, in listing order
    pc,             \* position of the deriveTimeSeriesActivity call
    opts,           \* arguments of the running call
    frame,          \* buckets, anchorMs, startMs of the running call
    overall, sisyphus, prometheus, atlas, background,   \* the five bucket arrays
    childSessions,  \* ids of the selected child sessions
    result,         \* the payload returned
    label,          \* argument of a direct canonicalizeAgent call
    canon,          \* its result
    scan,           \* a direct readRecentMessageMetas call: arguments and result
    feed,           \* a deriveToolCalls call: arguments, position, locals, result
    probe           \* a findAvailablePort call: arguments, position, probes made

vars == <<sessions, messages, parts, pc, opts, frame, overall, sisyphus,
          prometheus, atlas, background, childSessions, result, label, canon,
          scan, feed, probe>>

store == <<sessions, messages, parts>>
locals == <<opts, frame, overall, sisyphus, prometheus, atlas, background, childSessions>>

----------------------------------------------------------------------------
(* Bounds of the model *)

MaxFiles == 2       \* message files the external writer adds
MaxFillers == 26    \* extra child sessions in the many-children store

(* Program constants *)

MAX_MESSAGES == 200         \* readRecentMessageMetas(messageDir, 200)
MAX_CHILD_SESSIONS == 25    \* .slice(0, 25)

(* Identifiers *)

NoId == 0           \* mainSessionId: null / parentID absent
MainId == 1         \* "ses_main"
ChildA == 2         \* "ses_child_a"
Stranger == 3       \* a session that is no child of the main session
OtherParent == 4    \* the parent of Stranger
FillerBase == 10    \* filler children are FillerBase + 1 .. FillerBase + n
ChildZ == 90        \* a child whose id sorts after every filler

MainMsgIds == {1, 2}     \* file names in the main session's message directory
ChildMsgIds == {2, 3}    \* file names in a child session's message directory
ZMsg == 4                \* the message of ChildZ
FillerMsg == 5           \* the message of the last filler child
StrangerMsg == 7
NowValues == {7, 8}
Windows == { [w |-> 4, b |-> 2], [w |-> 6, b |-> 3], [w |-> 5, b |-> 2] }
MainChoices == {NoId, MainId}

Num(n) == [num |-> TRUE, v |-> n]
NotNum == [num |-> FALSE, v |-> 0]      \* missing, null, or e.g. the string "bad"
CreatedValues == {NotNum, Num(1), Num(5), Num(6)}

----------------------------------------------------------------------------
(* Agent labels *)

Str(cs) == [str |-> TRUE, chars |-> cs]
NonString == [str |-> FALSE, chars |-> << >>]     \* undefined, null, a number

Whitespace == {" ", "\t", "\n"}

UpperLetters == <<"A","B","C","D","E","F","G","H","I","J","K","L","M",
                  "N","O","P","Q","R","S","T","U","V","W","X","Y","Z">>
LowerLetters == <<"a","b","c","d","e","f","g","h","i","j","k","l","m",
                  "n","o","p","q","r","s","t","u","v","w","x","y","z">>

cSisyphus == <<"s","i","s","y","p","h","u","s">>
cSisyphusJunior == <<"s","i","s","y","p","h","u","s","-","j","u","n","i","o","r">>
cPrometheus == <<"p","r","o","m","e","t","h","e","u","s">>
cAtlas == <<"a","t","l","a","s">>

\* String.prototype.trim
RECURSIVE trimStart(_)
trimStart(cs) ==
    IF cs = << >> THEN << >>
    ELSE IF Head(cs) \in Whitespace THEN trimStart(Tail(cs)) ELSE cs

RECURSIVE trimEnd(_)
trimEnd(cs) ==
    IF cs = << >> THEN << >>
    ELSE IF cs[Len(cs)] \in Whitespace THEN trimEnd(SubSeq(cs, 1, Len(cs) - 1)) ELSE cs

trim(cs) == trimEnd(trimStart(cs))

\* String.prototype.toLowerCase
toLowerChar(c) ==
    IF \E i \in 1..Len(UpperLetters) : UpperLetters[i] = c
    THEN LowerLetters[CHOOSE i \in 1..Len(UpperLetters) : UpperLetters[i] = c]
    ELSE c

toLowerCase(cs) == [i \in 1..Len(cs) |-> toLowerChar(cs[i])]

\* String.prototype.startsWith
startsWith(cs, prefix) ==
    Len(cs) >= Len(prefix) /\ SubSeq(cs, 1, Len(prefix)) = prefix

\* a variant that matches the name anywhere in the label, not at its start
includes(cs, sub) ==
    \E k \in 0..(Len(cs) - Len(sub)) : SubSeq(cs, k + 1, k + Len(sub)) = sub

canonicalizeAgent_includes(agent) ==
    IF ~agent.str THEN "other"
    ELSE LET trimmed == trim(agent.chars)
             lowered == toLowerCase(trimmed)
         IN  IF trimmed = << >> THEN "other"
             ELSE IF includes(lowered, cSisyphusJunior) THEN "sisyphus"
             ELSE IF includes(lowered, cSisyphus) THEN "sisyphus"
             ELSE IF includes(lowered, cPrometheus) THEN "prometheus"
             ELSE IF includes(lowered, cAtlas) THEN "atlas"
             ELSE "other"

canonicalizeAgent(agent) ==
    IF ~agent.str THEN "other"
    ELSE LET trimmed == trim(agent.chars)
             lowered == toLowerCase(trimmed)
         IN  IF trimmed = << >> THEN "other"
             ELSE IF startsWith(lowered, cSisyphusJunior) THEN "sisyphus"
             ELSE IF startsWith(lowered, cSisyphus) THEN "sisyphus"
             ELSE IF startsWith(lowered, cPrometheus) THEN "prometheus"
             ELSE IF startsWith(lowered, cAtlas) THEN "atlas"
             ELSE "other"

\* Labels the stored messages carry
lblSisyphusV2 == Str(<<"S","i","s","y","p","h","u","s"," ","v","2">>)
lblPROMETHEUS == Str(<<"P","R","O","M","E","T","H","E","U","S">>)
lblAtlas == Str(<<" ","A","t","l","a","s">>)
lblSisyphusJunior == Str(cSisyphusJunior)
AgentLabels == {lblSisyphusV2, lblPROMETHEUS, lblAtlas, NonString}
ChildAgentLabels == {lblSisyphusJunior, lblAtlas}

----------------------------------------------------------------------------
(* The record store as the code reads it *)

\* A message file: id is its file name and, when ok, the id field of its JSON;
\* ok = FALSE is a file that does not parse or has no string id.
MessageFile(id, ok, created, agent, mtime) ==
    [id |-> id, ok |-> ok, created |-> created, agent |-> agent, mtime |-> mtime]

\* A part file: ok = FALSE is a file that does not parse.
PartFile(ok, type) == [ok |-> ok, type |-> type]
ToolPart == PartFile(TRUE, "tool")
TextPart == PartFile(TRUE, "text")
BadPart == PartFile(FALSE, "")

SessionMeta(id, parentID, updated) ==
    [id |-> id, parentID |-> parentID, updated |-> updated]

\* String(a).localeCompare(String(b)) on ids
localeCompare(a, b) == IF a < b THEN -1 ELSE IF a > b THEN 1 ELSE 0

\* getMessageDir + listJsonFiles: the files of a session's message directory;
\* a session without a directory has none.
getMessageDir(messageStorage, sessionId) ==
    IF sessionId \in DOMAIN messageStorage THEN messageStorage[sessionId] ELSE << >>

\* readAllSessionMetas: every session record of the store
readAllSessionMetas(sessionStorage) == sessionStorage

zeroBuckets(size) == [i \in 1..size |-> 0]

\* .sort((a, b) => b.mtime - a.mtime), stable: x goes behind the entries of
\* the sorted array that are not older than it
insertByMtime(x, sorted) ==
    LET p == Cardinality({ k \in 1..Len(sorted) : sorted[k].mtime - x.mtime >= 0 })
    IN  SubSeq(sorted, 1, p) \o <<x>> \o SubSeq(sorted, p + 1, Len(sorted))

\* the files lo..hi are inserted in their order, the first half and then the
\* rest; loop: [lo, hi, sorted]
RECURSIVE mtimeRange(_, _)
mtimeRange(files, loop) ==
    IF loop.lo > loop.hi THEN loop.sorted
    ELSE IF loop.lo = loop.hi THEN insertByMtime(files[loop.lo], loop.sorted)
    ELSE LET mid == (loop.lo + loop.hi) \div 2
             first == [lo |-> loop.lo, hi |-> mid, sorted |-> loop.sorted]
         IN  mtimeRange(files, [lo |-> mid + 1, hi |-> loop.hi,
                                sorted |-> mtimeRange(files, first)])

sortByMtime(files, sorted) ==
    mtimeRange(files, [lo |-> 1, hi |-> Len(files), sorted |-> sorted])

slice(s, n) == SubSeq(s, 1, IF Len(s) < n THEN Len(s) ELSE n)

readRecentMessageMetas(messageDir, maxMessages) ==
    LET ranked == slice(sortByMtime(messageDir, << >>), maxMessages)
    IN  SelectSeq(ranked, LAMBDA f : f.ok)

countToolParts(partStorage, messageId) ==
    IF messageId \notin DOMAIN partStorage THEN 0
    ELSE LET files == partStorage[messageId]
         IN  Cardinality({k \in 1..Len(files) : files[k].ok /\ files[k].type = "tool"})

addToBucket(values, bucketIndex, count) ==
    IF bucketIndex < 0 \/ bucketIndex >= Len(values) THEN values
    ELSE [values EXCEPT ![bucketIndex + 1] = @ + count]

\* getCreated: the number, or -Infinity (inf = TRUE)
getCreated(meta) ==
    IF meta.created.num THEN [inf |-> FALSE, v |-> meta.created.v]
    ELSE [inf |-> TRUE, v |-> 0]

\* created < n and created >= n for a created that may be -Infinity
isBefore(created, n) == created.inf \/ created.v < n
isAtOrAfter(created, n) == ~created.inf /\ created.v >= n

\* the comparator with created ascending
compareMetas_oldestFirst(a, b) ==
    LET at == getCreated(a)
        bt == getCreated(b)
    IN  IF bt # at
        THEN (IF at.inf THEN -1 ELSE IF bt.inf THEN 1
              ELSE IF at.v - bt.v < 0 THEN -1 ELSE 1)
        ELSE localeCompare(a.id, b.id)

\* the comparator of the two message sorts: created descending, id ascending
compareMetas(a, b) ==
    LET at == getCreated(a)
        bt == getCreated(b)
    IN  IF bt # at
        THEN (IF bt.inf THEN -1 ELSE IF at.inf THEN 1
              ELSE IF bt.v - at.v < 0 THEN -1 ELSE 1)
        ELSE localeCompare(a.id, b.id)

\* x goes behind the entries of the sorted array that do not come after it
insertMeta(x, sorted) ==
    LET p == Cardinality({ k \in 1..Len(sorted) : compareMetas(sorted[k], x) <= 0 })
    IN  SubSeq(sorted, 1, p) \o <<x>> \o SubSeq(sorted, p + 1, Len(sorted))

\* loop: [lo, hi, sorted], as in mtimeRange
RECURSIVE metaRange(_, _)
metaRange(metas, loop) ==
    IF loop.lo > loop.hi THEN loop.sorted
    ELSE IF loop.lo = loop.hi THEN insertMeta(metas[loop.lo], loop.sorted)
    ELSE LET mid == (loop.lo + loop.hi) \div 2
             first == [lo |-> loop.lo, hi |-> mid, sorted |-> loop.sorted]
         IN  metaRange(metas, [lo |-> mid + 1, hi |-> loop.hi,
                               sorted |-> metaRange(metas, first)])

sortMetas(metas, sorted) ==
    metaRange(metas, [lo |-> 1, hi |-> Len(metas), sorted |-> sorted])

bucketIndexOf(created, startMs, bucketMs) == (created - startMs) \div bucketMs

\* lines 142-148: the per-agent part of one message's contribution
addPerAgent_all(acc, agent, bucketIndex, toolCount) ==
    [acc EXCEPT !.sisyphus = addToBucket(@, bucketIndex, toolCount),
                !.prometheus = addToBucket(@, bucketIndex, toolCount),
                !.atlas = addToBucket(@, bucketIndex, toolCount)]

addPerAgent(acc, agent, bucketIndex, toolCount) ==
    LET category == canonicalizeAgent(agent)
    IN  IF category = "sisyphus"
        THEN [acc EXCEPT !.sisyphus = addToBucket(@, bucketIndex, toolCount)]
        ELSE IF category = "prometheus"
        THEN [acc EXCEPT !.prometheus = addToBucket(@, bucketIndex, toolCount)]
        ELSE IF category = "atlas"
        THEN [acc EXCEPT !.atlas = addToBucket(@, bucketIndex, toolCount)]
        ELSE acc

\* lines 133-149: one pass of the loop body; stopped is the break
messageStep(meta, o, perAgent, acc) ==
    LET created == getCreated(meta)
    IN  IF isBefore(created, o.startMs) THEN [stopped |-> TRUE, acc |-> acc]      \* break
        ELSE IF isAtOrAfter(created, o.anchorMs)
             THEN [stopped |-> FALSE, acc |-> acc]                               \* continue
        ELSE LET bucketIndex == bucketIndexOf(created.v, o.startMs, o.bucketMs)
                 toolCount == countToolParts(o.part, meta.id)
             IN  IF toolCount <= 0
                 THEN [stopped |-> FALSE, acc |-> acc]
                 ELSE LET acc1 == [acc EXCEPT !.overall =
                                       addToBucket(@, bucketIndex, toolCount)]
                      IN  [stopped |-> FALSE,
                           acc |-> IF perAgent
                                   THEN addPerAgent(acc1, meta.agent, bucketIndex, toolCount)
                                   ELSE acc1]

\* the metas lo..hi are visited in their order, the first half and then the
\* rest, until the break; loop: [lo, hi, stopped, acc]
RECURSIVE messageRange(_, _, _, _)
messageRange(ordered, o, perAgent, loop) ==
    IF loop.stopped \/ loop.lo > loop.hi THEN loop
    ELSE IF loop.lo = loop.hi
    THEN LET r == messageStep(ordered[loop.lo], o, perAgent, loop.acc)
         IN  [lo |-> loop.lo + 1, hi |-> loop.hi, stopped |-> r.stopped, acc |-> r.acc]
    ELSE LET mid == (loop.lo + loop.hi) \div 2
             first == messageRange(ordered, o, perAgent, [loop EXCEPT !.hi = mid])
         IN  messageRange(ordered, o, perAgent,
                          [lo |-> mid + 1, hi |-> loop.hi, stopped |-> first.stopped,
                           acc |-> first.acc])

\* the loop of bucketMessageTools over the ordered metas, from position i
messageLoop(ordered, i, o, perAgent, acc) ==
    messageRange(ordered, o, perAgent,
                 [lo |-> i, hi |-> Len(ordered), stopped |-> FALSE, acc |-> acc]).acc

\* o: [part, startMs, anchorMs, bucketMs]; acc: [overall, sisyphus, prometheus, atlas]
bucketMessageTools(messageDir, o, perAgent, acc) ==
    LET metas == readRecentMessageMetas(messageDir, MAX_MESSAGES)
        ordered == sortMetas(metas, << >>)
    IN  messageLoop(ordered, 1, o, perAgent, acc)

\* lines 171-177: one pass of the inner loop body of bucketBackgroundTools
backgroundStep(meta, o, output) ==
    LET created == getCreated(meta)
    IN  IF isBefore(created, o.startMs) THEN [stopped |-> TRUE, output |-> output]
        ELSE IF isAtOrAfter(created, o.anchorMs)
             THEN [stopped |-> FALSE, output |-> output]
        ELSE LET bucketIndex == bucketIndexOf(created.v, o.startMs, o.bucketMs)
                 toolCount == countToolParts(o.part, meta.id)
             IN  IF toolCount <= 0
                 THEN [stopped |-> FALSE, output |-> output]
                 ELSE [stopped |-> FALSE,
                       output |-> addToBucket(output, bucketIndex, toolCount)]

\* loop: [lo, hi, stopped, output], as in messageRange
RECURSIVE backgroundRange(_, _, _)
backgroundRange(ordered, o, loop) ==
    IF loop.stopped \/ loop.lo > loop.hi THEN loop
    ELSE IF loop.lo = loop.hi
    THEN LET r == backgroundStep(ordered[loop.lo], o, loop.output)
         IN  [lo |-> loop.lo + 1, hi |-> loop.hi, stopped |-> r.stopped,
              output |-> r.output]
    ELSE LET mid == (loop.lo + loop.hi) \div 2
             first == backgroundRange(ordered, o, [loop EXCEPT !.hi = mid])
         IN  backgroundRange(ordered, o,
                             [lo |-> mid + 1, hi |-> loop.hi, stopped |-> first.stopped,
                              output |-> first.output])

\* the inner loop of bucketBackgroundTools
backgroundLoop(ordered, i, o, output) ==
    backgroundRange(ordered, o,
                    [lo |-> i, hi |-> Len(ordered), stopped |-> FALSE,
                     output |-> output]).output

\* for (const sessionId of sessionIds): the ids are scanned in their order,
\* here the first half of the array and then the rest, each on the output so
\* far; loop: [ids, output]
RECURSIVE backgroundSessions(_, _, _)
backgroundSessions(messageStorage, o, loop) ==
    IF Len(loop.ids) = 0 THEN loop.output
    ELSE IF Len(loop.ids) = 1
    THEN LET messageDir == getMessageDir(messageStorage, loop.ids[1])
             metas == readRecentMessageMetas(messageDir, MAX_MESSAGES)
             ordered == sortMetas(metas, << >>)
         IN  backgroundLoop(ordered, 1, o, loop.output)
    ELSE LET half == Len(loop.ids) \div 2
             first == [ids |-> SubSeq(loop.ids, 1, half), output |-> loop.output]
         IN  backgroundSessions(messageStorage, o,
                 [ids |-> SubSeq(loop.ids, half + 1, Len(loop.ids)),
                  output |-> backgroundSessions(messageStorage, o, first)])

bucketBackgroundTools(messageStorage, sessionIds, o, output) ==
    backgroundSessions(messageStorage, o, [ids |-> sessionIds, output |-> output])

\* line 203: the perAgent argument bucketSessionAgents hands to bucketMessageTools
childPerAgent_defined == TRUE

childPerAgent == FALSE

\* for (const sessionId of sessionIds), scanned as in backgroundSessions;
\* loop: [ids, acc]
RECURSIVE agentSessions(_, _, _)
agentSessions(messageStorage, o, loop) ==
    IF Len(loop.ids) = 0 THEN loop.acc
    ELSE IF Len(loop.ids) = 1
    THEN bucketMessageTools(getMessageDir(messageStorage, loop.ids[1]), o,
                            childPerAgent, loop.acc)
    ELSE LET half == Len(loop.ids) \div 2
             first == [ids |-> SubSeq(loop.ids, 1, half), acc |-> loop.acc]
         IN  agentSessions(messageStorage, o,
                 [ids |-> SubSeq(loop.ids, half + 1, Len(loop.ids)),
                  acc |-> agentSessions(messageStorage, o, first)])

\* the second scan of the child sessions left out
bucketSessionAgents_none(messageStorage, sessionIds, o, acc) == acc

bucketSessionAgents(messageStorage, sessionIds, o, acc) ==
    agentSessions(messageStorage, o, [ids |-> sessionIds, acc |-> acc])

\* lines 243-252: the child sessions of the main session
updatedOf(meta) == IF meta.updated.num THEN meta.updated.v ELSE 0

compareSessions_ascending(a, b) ==
    LET at == updatedOf(a)
        bt == updatedOf(b)
    IN  IF bt # at THEN (IF at - bt < 0 THEN -1 ELSE 1)
        ELSE localeCompare(a.id, b.id)

compareSessions(a, b) ==
    LET at == updatedOf(a)
        bt == updatedOf(b)
    IN  IF bt # at THEN (IF bt - at < 0 THEN -1 ELSE 1)
        ELSE localeCompare(a.id, b.id)

\* x goes behind the entries of the sorted array that do not come after it
insertSession(x, sorted) ==
    LET p == Cardinality({ k \in 1..Len(sorted) : compareSessions(sorted[k], x) <= 0 })
    IN  SubSeq(sorted, 1, p) \o <<x>> \o SubSeq(sorted, p + 1, Len(sorted))

\* the metas are inserted one by one, in their order in the array
RECURSIVE sortSessions(_, _)
sortSessions(metas, sorted) ==
    IF Len(sorted) = Len(metas) THEN sorted
    ELSE sortSessions(metas, insertSession(metas[Len(sorted) + 1], sorted))

selectChildSessions(sessionStorage, mainSessionId) ==
    LET children == SelectSeq(readAllSessionMetas(sessionStorage),
                              LAMBDA meta : meta.parentID = mainSessionId)
        ranked == slice(sortSessions(children, << >>), MAX_CHILD_SESSIONS)
    IN  [k \in 1..Len(ranked) |-> ranked[k].id]

\* lines 217-220
bucketCount_plusOne(windowMs, bucketMs) == (windowMs \div bucketMs) + 1

bucketCount(windowMs, bucketMs) == windowMs \div bucketMs

anchorOf_unsnapped(nowMs, bucketMs) == nowMs

anchorOf(nowMs, bucketMs) == (nowMs \div bucketMs) * bucketMs

\* line 229: if (mainSessionId)
hasMainSession_always(mainSessionId) == TRUE

hasMainSession(mainSessionId) == mainSessionId # NoId

SERIES_ORDER == <<
    [id |-> "overall-main", label |-> "Overall", tone |-> "muted"],
    [id |-> "agent:sisyphus", label |-> "Sisyphus", tone |-> "teal"],
    [id |-> "agent:prometheus", label |-> "Prometheus", tone |-> "red"],
    [id |-> "agent:atlas", label |-> "Atlas", tone |-> "green"],
    [id |-> "background-total", label |-> "Background tasks (total)", tone |-> "muted"] >>

withValues(meta, values) ==
    [id |-> meta.id, label |-> meta.label, tone |-> meta.tone, values |-> values]

----------------------------------------------------------------------------
(* deriveTimeSeriesActivity, in the steps in which it reads the store *)

scanOpts(partStorage, startMs, anchorMs, bucketMs) ==
    [part |-> partStorage, startMs |-> startMs, anchorMs |-> anchorMs,
     bucketMs |-> bucketMs]

zeroAcc(buckets) ==
    [overall |-> zeroBuckets(buckets), sisyphus |-> zeroBuckets(buckets),
     prometheus |-> zeroBuckets(buckets), atlas |-> zeroBuckets(buckets)]

\* lines 229-241: the scan of the main session
mainScan(messageStorage, mainSessionId, o, acc) ==
    IF hasMainSession(mainSessionId)
    THEN bucketMessageTools(getMessageDir(messageStorage, mainSessionId), o, TRUE, acc)
    ELSE acc

payloadOf(windowMs, bucketMs, buckets, anchorMs, nowMs, o, s, p, a, b) ==
    [windowMs |-> windowMs, bucketMs |-> bucketMs, buckets |-> buckets,
     anchorMs |-> anchorMs, serverNowMs |-> nowMs,
     series |-> << withValues(SERIES_ORDER[1], o), withValues(SERIES_ORDER[2], s),
                   withValues(SERIES_ORDER[3], p), withValues(SERIES_ORDER[4], a),
                   withValues(SERIES_ORDER[5], b) >>]

\* the whole call on an unchanging store
deriveTimeSeriesActivity(sessionStorage, messageStorage, partStorage, mainSessionId, nowMs, windowMs, bucketMs) ==
    LET buckets == bucketCount(windowMs, bucketMs)
        anchorMs == anchorOf(nowMs, bucketMs)
        startMs == anchorMs - windowMs
        o == scanOpts(partStorage, startMs, anchorMs, bucketMs)
        acc1 == mainScan(messageStorage, mainSessionId, o, zeroAcc(buckets))
        children == IF hasMainSession(mainSessionId)
                    THEN selectChildSessions(sessionStorage, mainSessionId)
                    ELSE << >>
        bg == bucketBackgroundTools(messageStorage, children, o, zeroBuckets(buckets))
        acc2 == bucketSessionAgents(messageStorage, children, o, acc1)
    IN  payloadOf(windowMs, bucketMs, buckets, anchorMs, nowMs,
                  acc2.overall, acc2.sisyphus, acc2.prometheus, acc2.atlas, bg)

NoOpts == [mainSessionId |-> NoId, nowMs |-> 0, windowMs |-> 0, bucketMs |-> 0]
NoFrame == [buckets |-> 0, anchorMs |-> 0, startMs |-> 0]
NoResult == [windowMs |-> 0, bucketMs |-> 0, buckets |-> 0, anchorMs |-> 0,
             serverNowMs |-> 0, series |-> << >>]

currentScan == scanOpts(parts, frame.startMs, frame.anchorMs, opts.bucketMs)

\* lines 215-252: arguments, anchor, zeroed arrays, the main session's scan and
\* the selection of the child sessions
Begin(mainSessionId, nowMs, windowMs, bucketMs) ==
    /\ pc = "idle"
    /\ LET buckets == bucketCount(windowMs, bucketMs)
           anchorMs == anchorOf(nowMs, bucketMs)
           startMs == anchorMs - windowMs
           o == scanOpts(parts, startMs, anchorMs, bucketMs)
           acc == mainScan(messages, mainSessionId, o, zeroAcc(buckets))
           children == IF hasMainSession(mainSessionId)
                       THEN selectChildSessions(sessions, mainSessionId)
                       ELSE << >>
       IN  /\ opts' = [mainSessionId |-> mainSessionId, nowMs |-> nowMs,
                       windowMs |-> windowMs, bucketMs |-> bucketMs]
           /\ frame' = [buckets |-> buckets, anchorMs |-> anchorMs, startMs |-> startMs]
           /\ overall' = acc.overall
           /\ sisyphus' = acc.sisyphus
           /\ prometheus' = acc.prometheus
           /\ atlas' = acc.atlas
           /\ background' = zeroBuckets(buckets)
           /\ childSessions' = children
           /\ pc' = IF Len(children) > 0 THEN "background" ELSE "return"
    /\ UNCHANGED <<store, result, label, canon, scan, feed, probe>>

\* lines 255-262
BucketBackground ==
    /\ pc = "background"
    /\ background' = bucketBackgroundTools(messages, childSessions, currentScan, background)
    /\ pc' = "agents"
    /\ UNCHANGED <<store, opts, frame, overall, sisyphus, prometheus, atlas,
                   childSessions, result, label, canon, scan, feed, probe>>

\* lines 263-271
BucketSessionAgents ==
    /\ pc = "agents"
    /\ LET acc == bucketSessionAgents(messages, childSessions, currentScan,
                      [overall |-> overall, sisyphus |-> sisyphus,
                       prometheus |-> prometheus, atlas |-> atlas])
       IN  /\ overall' = acc.overall
           /\ sisyphus' = acc.sisyphus
           /\ prometheus' = acc.prometheus
           /\ atlas' = acc.atlas
    /\ pc' = "return"
    /\ UNCHANGED <<store, opts, frame, background, childSessions, result, label, canon, scan, feed, probe>>

\* lines 275-288
Return ==
    /\ pc = "return"
    /\ result' = payloadOf(opts.windowMs, opts.bucketMs, frame.buckets, frame.anchorMs,
                           opts.nowMs, overall, sisyphus, prometheus, atlas, background)
    /\ pc' = "done"
    /\ UNCHANGED <<store, locals, label, canon, scan, feed, probe>>

\* the payload and the call's locals do not outlive the poll that asked for them
Discard ==
    /\ pc = "done"
    /\ pc' = "idle"
    /\ opts' = NoOpts
    /\ frame' = NoFrame
    /\ overall' = << >>
    /\ sisyphus' = << >>
    /\ prometheus' = << >>
    /\ atlas' = << >>
    /\ background' = << >>
    /\ childSessions' = << >>
    /\ result' = NoResult
    /\ UNCHANGED <<store, label, canon, scan, feed, probe>>

Call ==
    \E m \in MainChoices, n \in NowValues, wb \in Windows : Begin(m, n, wb.w, wb.b)

----------------------------------------------------------------------------
(* The external writer of the store *)

WriterSessions == {MainId, ChildA}

filesWritten == Len(messages[MainId]) + Len(messages[ChildA])

RECURSIVE insertFile(_, _)
insertFile(f, dir) ==
    IF dir = << >> THEN <<f>>
    ELSE IF f.id < Head(dir).id THEN <<f>> \o dir
    ELSE <<Head(dir)>> \o insertFile(f, Tail(dir))

\* a message file appears in a session's directory, between two calls
WriteMessage(s, f) ==
    /\ pc = "idle"
    /\ filesWritten < MaxFiles
    /\ \A k \in 1..Len(messages[s]) : messages[s][k].id # f.id
    /\ messages' = [messages EXCEPT ![s] = insertFile(f, @)]
    /\ UNCHANGED <<sessions, parts, pc, locals, result, label, canon, scan, feed, probe>>

\* the files the writer may add to a directory; a new file is the most recently
\* modified of its directory
NewFiles(s) ==
    LET t == Len(messages[s]) + 1
        ids == IF s = MainId THEN MainMsgIds ELSE ChildMsgIds
        labels == IF s = MainId THEN AgentLabels ELSE ChildAgentLabels
    IN  { MessageFile(id, TRUE, c, a, t) : id \in ids, c \in CreatedValues, a \in labels }
        \cup { MessageFile(id, FALSE, NotNum, NonString, t) : id \in ids }

Write == \E s \in WriterSessions : \E f \in NewFiles(s) : WriteMessage(s, f)

----------------------------------------------------------------------------
(* Stores *)

SessionFixture ==
    << SessionMeta(MainId, NoId, Num(3)),
       SessionMeta(ChildA, MainId, Num(1)),
       SessionMeta(Stranger, OtherParent, Num(2)) >>

StrangerFile == MessageFile(StrangerMsg, TRUE, Num(5), lblSisyphusV2, 1)

PartIds == MainMsgIds \cup ChildMsgIds \cup {ZMsg, FillerMsg, StrangerMsg}

\* message 1: two tool parts, a text part and an unparsable file; message 2: one
\* tool part; message 3: no tool part; the message of ChildZ: three tool parts;
\* the message of the last filler: five; the stranger's message: one
PartFixture ==
    [m \in PartIds |-> IF m = 1 THEN <<ToolPart, ToolPart, TextPart, BadPart>>
                       ELSE IF m = 3 THEN <<TextPart, BadPart>>
                       ELSE IF m = ZMsg THEN <<ToolPart, TextPart, ToolPart, ToolPart>>
                       ELSE IF m = FillerMsg
                            THEN <<ToolPart, ToolPart, ToolPart, ToolPart, ToolPart>>
                       ELSE <<ToolPart>>]

\* no readRecentMessageMetas call and no deriveToolCalls call of their own
NoScan == [pc |-> "none"]
NoFeed == [pc |-> "none"]
\* and no findAvailablePort call
NoProbe == [pc |-> "none"]

IdleCall ==
    /\ scan = NoScan
    /\ feed = NoFeed
    /\ pc = "idle"
    /\ opts = NoOpts
    /\ frame = NoFrame
    /\ overall = << >>
    /\ sisyphus = << >>
    /\ prometheus = << >>
    /\ atlas = << >>
    /\ background = << >>
    /\ childSessions = << >>
    /\ result = NoResult

Init ==
    /\ sessions = SessionFixture
    /\ messages = [s \in {MainId, ChildA, Stranger} |->
                      IF s = Stranger THEN <<StrangerFile>> ELSE << >>]
    /\ parts = PartFixture
    /\ IdleCall
    /\ label = NonString
    /\ canon = "unset"
    /\ probe = NoProbe

Next ==
    \/ Write
    \/ Call
    \/ BucketBackground
    \/ BucketSessionAgents
    \/ Return
    \/ Discard

Spec == Init /\ [][Next]_vars

----------------------------------------------------------------------------
(* Stores with many child sessions *)

Fillers(n) == [k \in 1..n |-> SessionMeta(FillerBase + k, MainId, Num(1))]

FillerCounts == {0} \cup { n \in (MaxFillers - 3)..MaxFillers : n >= 0 }

ManySessions ==
    { <<SessionMeta(MainId, NoId, Num(3))>> \o Fillers(n)
        \o << SessionMeta(ChildZ, pz, uz), SessionMeta(ChildA, MainId, ua),
              SessionMeta(Stranger, OtherParent, Num(2)) >> :
        n \in FillerCounts,
        pz \in {MainId, OtherParent, NoId},
        uz \in {NotNum, Num(0), Num(1), Num(2), Num(0 - 1)},
        ua \in {NotNum, Num(1), Num(2)} }

ManyMessages ==
    [s \in {MainId, ChildA, ChildZ, Stranger} \cup { FillerBase + k : k \in 1..MaxFillers } |->
        IF s = MainId THEN <<MessageFile(1, TRUE, Num(5), lblAtlas, 1)>>
        ELSE IF s = ChildA THEN <<MessageFile(2, TRUE, Num(5), lblSisyphusJunior, 1)>>
        ELSE IF s = ChildZ THEN <<MessageFile(ZMsg, TRUE, Num(5), lblAtlas, 1)>>
        ELSE IF s = Stranger THEN <<StrangerFile>>
        ELSE <<MessageFile(FillerMsg, TRUE, Num(5), NonString, 1)>>]

InitSessions ==
    /\ sessions \in ManySessions
    /\ messages = ManyMessages
    /\ parts = PartFixture
    /\ IdleCall
    /\ label = NonString
    /\ canon = "unset"
    /\ probe = NoProbe

NextSessions ==
    \/ Call
    \/ BucketBackground
    \/ BucketSessionAgents
    \/ Return
    \/ Discard

SpecSessions == InitSessions /\ [][NextSessions]_vars

----------------------------------------------------------------------------
(* canonicalizeAgent called on its own *)

toUpperChar(c) ==
    IF \E i \in 1..Len(LowerLetters) : LowerLetters[i] = c
    THEN UpperLetters[CHOOSE i \in 1..Len(LowerLetters) : LowerLetters[i] = c]
    ELSE c

Cased(cs, mode) ==
    [i \in 1..Len(cs) |->
        IF mode = "upper" \/ (mode = "capital" /\ i = 1) THEN toUpperChar(cs[i]) ELSE cs[i]]

LabelNames ==
    { cSisyphus, cSisyphusJunior, cPrometheus, cAtlas,
      <<"s","i","s","y","p","h","u">>, <<"a","t","l","a">>,
      <<"u","n","k","n","o","w","n">>, << >> }

LabelFamily ==
    { Str(lead \o junk \o Cased(name, mode) \o suffix \o trail) :
        lead \in { << >>, <<" ">>, <<"\t", " ">> },
        junk \in { << >>, <<"x">>, <<"m","y","-">> },
        name \in LabelNames,
        mode \in {"lower", "upper", "capital"},
        suffix \in { << >>, <<" ","v","2">>, <<"-","J","u","n","i","o","r">>, <<"\n">> },
        trail \in { << >>, <<" ">> } }
    \cup {NonString}

InitCanon ==
    /\ sessions = << >>
    /\ messages = [s \in WriterSessions |-> << >>]
    /\ parts = PartFixture
    /\ IdleCall
    /\ label \in LabelFamily
    /\ canon = "unset"
    /\ probe = NoProbe

Canonicalize ==
    /\ canon = "unset"
    /\ probe = NoProbe
    /\ canon' = canonicalizeAgent(label)
    /\ UNCHANGED <<store, pc, locals, result, label, scan, feed, probe>>

NextCanon == Canonicalize

SpecCanon == InitCanon /\ [][NextCanon]_vars

----------------------------------------------------------------------------
(* tool-calls.ts: the scanner of the tool-call feed *)

MAX_TOOL_CALL_MESSAGES == 200
MAX_TOOL_CALLS == 300

\* a message directory as existsSync and listJsonFiles show it
Dir(files) == [exists |-> TRUE, files |-> files]
NoDir == [exists |-> FALSE, files |-> << >>]

\* .sort((a, b) => b.mtime - a.mtime): x goes behind the ranked entries that do
\* not come after it
insertRanked(x, ranked) ==
    LET p == Cardinality({ k \in 1..Len(ranked) : x.mtime - ranked[k].mtime <= 0 })
    IN  SubSeq(ranked, 1, p) \o <<x>> \o SubSeq(ranked, p + 1, Len(ranked))

\* the files lo..hi are inserted in their order, the first half and then the
\* rest; loop: [lo, hi, ranked]
RECURSIVE rankRange(_, _)
rankRange(files, loop) ==
    IF loop.lo > loop.hi THEN loop.ranked
    ELSE IF loop.lo = loop.hi THEN insertRanked(files[loop.lo], loop.ranked)
    ELSE LET mid == (loop.lo + loop.hi) \div 2
             first == [lo |-> loop.lo, hi |-> mid, ranked |-> loop.ranked]
         IN  rankRange(files, [lo |-> mid + 1, hi |-> loop.hi,
                               ranked |-> rankRange(files, first)])

rankFiles(files) == rankRange(files, [lo |-> 1, hi |-> Len(files), ranked |-> << >>])

\* a scan that an invalid file ends
toolCallsReadRecentMessageMetas_stopAtTorn(messageDir, maxMessages) ==
    IF ~messageDir.exists THEN [metas |-> << >>, totalMessages |-> 0]
    ELSE LET files == messageDir.files
             ranked == slice(rankFiles(files), maxMessages)
             torn == { k \in 1..Len(ranked) : ~ranked[k].ok }
             ahead == IF torn = {} THEN Len(ranked)
                      ELSE (CHOOSE k \in torn : \A j \in torn : k <= j) - 1
         IN  [metas |-> SubSeq(ranked, 1, ahead), totalMessages |-> Len(files)]

\* readRecentMessageMetas of tool-calls.ts, with the total before the cap
toolCallsReadRecentMessageMetas_validFirst(messageDir, maxMessages) ==
    IF ~messageDir.exists THEN [metas |-> << >>, totalMessages |-> 0]
    ELSE LET files == messageDir.files
             valid == SelectSeq(rankFiles(files), LAMBDA f : f.ok)
         IN  [metas |-> slice(valid, maxMessages), totalMessages |-> Len(files)]

toolCallsReadRecentMessageMetas(messageDir, maxMessages) ==
    IF ~messageDir.exists THEN [metas |-> << >>, totalMessages |-> 0]
    ELSE LET files == messageDir.files
             ranked == slice(rankFiles(files), maxMessages)
         IN  [metas |-> SelectSeq(ranked, LAMBDA f : f.ok), totalMessages |-> Len(files)]

----------------------------------------------------------------------------
(* readRecentMessageMetas called on its own *)

MaxScanFiles == 3       \* files of the scanned directory

ScanMtimes == {0, 1, 2}         \* 0: statSync failed
ScanCreated == {NotNum, Num(9)}

\* the file at position k of a listing is named k
ScanFiles(k) ==
    { MessageFile(k, ok, c, NonString, t) : ok \in BOOLEAN, c \in ScanCreated, t \in ScanMtimes }

RECURSIVE ScanListings(_)
ScanListings(n) ==
    IF n = 0 THEN { << >> }
    ELSE { fs \o <<f>> : fs \in ScanListings(n - 1), f \in ScanFiles(n) }

ScanDirs == {NoDir} \cup { Dir(fs) : fs \in UNION { ScanListings(n) : n \in 0..MaxScanFiles } }

ScanIdle ==
    /\ pc = "idle"
    /\ opts = NoOpts
    /\ frame = NoFrame
    /\ overall = << >>
    /\ sisyphus = << >>
    /\ prometheus = << >>
    /\ atlas = << >>
    /\ background = << >>
    /\ childSessions = << >>
    /\ result = NoResult

InitScan ==
    /\ sessions = << >>
    /\ messages = [s \in WriterSessions |-> << >>]
    /\ parts = PartFixture
    /\ ScanIdle
    /\ label = NonString
    /\ canon = "unset"
    /\ probe = NoProbe

    /\ feed = NoFeed
    /\ scan \in { [pc |-> "call", messageDir |-> d, maxMessages |-> n,
                    metas |-> << >>, totalMessages |-> 0] :
                      d \in ScanDirs, n \in 1..MaxScanFiles }

ReadRecentMessageMetas ==
    /\ scan.pc = "call"
    /\ LET r == toolCallsReadRecentMessageMetas(scan.messageDir, scan.maxMessages)
       IN  scan' = [scan EXCEPT !.pc = "done", !.metas = r.metas,
                                !.totalMessages = r.totalMessages]
    /\ UNCHANGED <<store, pc, locals, result, label, canon, feed, probe>>

NextScan == ReadRecentMessageMetas

SpecScan == InitScan /\ [][NextScan]_vars

----------------------------------------------------------------------------
(* tool-calls.ts: the part files and the summaries built from them *)

\* JSON values of state.output, state.error and state.input
JUndefined == [kind |-> "undefined", v |-> "", fields |-> << >>]
JString(v) == [kind |-> "string", v |-> v, fields |-> << >>]
JObject(fields) == [kind |-> "object", v |-> "", fields |-> fields]
JField(key, value) == [key |-> key, value |-> value]

\* a string field of a part, or a missing or non-string one
PStr(v) == [str |-> TRUE, v |-> v]
PNone == [str |-> FALSE, v |-> 0]

\* part.state: obj = FALSE is a part without a state object
PartState(status, output, error, input) ==
    [obj |-> TRUE, status |-> status, output |-> output, error |-> error, input |-> input]
NoState ==
    [obj |-> FALSE, status |-> "", output |-> JUndefined, error |-> JUndefined,
     input |-> JUndefined]

\* a file of a part directory; ok = FALSE is a file that does not parse
StoredPart(name, ok, type, callID, tool, state) ==
    [name |-> name, ok |-> ok, type |-> type, callID |-> callID, tool |-> tool,
     state |-> state]

\* the path guard sees where a directory lies: path.join(partStorage, messageId)
\* leaves the storage root for an id such as "../../elsewhere"
EscapingId == 0
StorageRoot == "storage"
ElsewhereRoot == "elsewhere"
NoRoots == << >>

messageDirPath(messageStorage, sessionId) == StorageRoot
partDirPath(partStorage, messageId) ==
    IF messageId = EscapingId THEN "outside" ELSE StorageRoot

\* assertAllowedPath: TRUE when the candidate lies under one of the roots;
\* the code throws otherwise
isAllowedPath(candidatePath, allowedRoots) ==
    \E k \in 1..Len(allowedRoots) : allowedRoots[k] = candidatePath

\* getMessageDir as deriveToolCalls uses it: the directory of the session, or
\* none
toolCallsGetMessageDir(messageStorage, sessionId) ==
    IF sessionId \in DOMAIN messageStorage THEN Dir(messageStorage[sessionId]) ELSE NoDir

FsOp(op, dir) == [op |-> op, dir |-> dir]

\* listJsonFiles(partDir, fsLike).sort(): by file name
insertByName(x, sorted) ==
    LET p == Cardinality({ k \in 1..Len(sorted) : sorted[k].name <= x.name })
    IN  SubSeq(sorted, 1, p) \o <<x>> \o SubSeq(sorted, p + 1, Len(sorted))

RECURSIVE sortByName(_, _)
sortByName(files, sorted) ==
    IF Len(sorted) = Len(files) THEN sorted
    ELSE sortByName(files, insertByName(files[Len(sorted) + 1], sorted))

isToolCallPart(part) ==
    part.ok /\ part.type = "tool" /\ part.tool.str /\ part.callID.str

\* lines 91-101, after the guard: the operations on the directory and the parts
readPartFiles(partStorage, messageId) ==
    IF messageId \notin DOMAIN partStorage
    THEN [threw |-> FALSE, parts |-> << >>, ops |-> <<FsOp("exists", messageId)>>]
    ELSE LET files == sortByName(partStorage[messageId], << >>)
         IN  [threw |-> FALSE,
              parts |-> SelectSeq(files, isToolCallPart),
              ops |-> <<FsOp("exists", messageId), FsOp("list", messageId)>>
                      \o [k \in 1..Len(files) |-> FsOp("read", messageId)]]

\* the guard placed behind the reads
readToolPartsForMessage_guardLast(partStorage, messageId, allowedRoots) ==
    LET r == readPartFiles(partStorage, messageId)
    IN  IF Len(allowedRoots) > 0
        THEN [threw |-> ~isAllowedPath(partDirPath(partStorage, messageId), allowedRoots),
              parts |-> r.parts,
              ops |-> r.ops \o <<FsOp("assert", messageId)>>]
        ELSE r

readToolPartsForMessage(partStorage, messageId, allowedRoots) ==
    IF Len(allowedRoots) > 0
    THEN IF isAllowedPath(partDirPath(partStorage, messageId), allowedRoots)
         THEN LET r == readPartFiles(partStorage, messageId)
              IN  [r EXCEPT !.ops = <<FsOp("assert", messageId)>> \o @]
         ELSE [threw |-> TRUE, parts |-> << >>, ops |-> <<FsOp("assert", messageId)>>]
    ELSE readPartFiles(partStorage, messageId)

Statuses == {"pending", "running", "completed", "error"}

readStatus(state) ==
    IF state.obj /\ state.status \in Statuses THEN state.status ELSE "unknown"

\* lines 128-142: the entries one message adds to calls
callsOfMessage(sessionId, meta, toolParts) ==
    LET createdAtMs == IF meta.created.num THEN meta.created ELSE NotNum
        createdSortKey == IF createdAtMs.num THEN [inf |-> FALSE, v |-> createdAtMs.v]
                          ELSE [inf |-> TRUE, v |-> 0]
    IN  [k \in 1..Len(toolParts) |->
            [sessionId |-> sessionId,
             messageId |-> meta.id,
             callId |-> toolParts[k].callID.v,
             tool |-> toolParts[k].tool.v,
             status |-> readStatus(toolParts[k].state),
             createdAtMs |-> createdAtMs,
             createdSortKey |-> createdSortKey,
             output |-> IF toolParts[k].state.obj THEN toolParts[k].state.output ELSE JUndefined,
             error |-> IF toolParts[k].state.obj THEN toolParts[k].state.error ELSE JUndefined]]

\* lines 127-144: loop = [lo, hi, threw, calls, log]; a throw of the guard
\* leaves the loop
RECURSIVE collectCalls(_, _, _, _, _)
collectCalls(partStorage, sessionId, allowedRoots, metas, loop) ==
    IF loop.threw \/ loop.lo > loop.hi THEN loop
    ELSE IF loop.lo = loop.hi
    THEN LET meta == metas[loop.lo]
             r == readToolPartsForMessage(partStorage, meta.id, allowedRoots)
         IN  [lo |-> loop.lo + 1, hi |-> loop.hi, threw |-> r.threw,
              calls |-> loop.calls \o callsOfMessage(sessionId, meta, r.parts),
              log |-> loop.log \o r.ops]
    ELSE LET mid == (loop.lo + loop.hi) \div 2
             first == collectCalls(partStorage, sessionId, allowedRoots, metas,
                                   [loop EXCEPT !.hi = mid])
         IN  collectCalls(partStorage, sessionId, allowedRoots, metas,
                          [lo |-> mid + 1, hi |-> loop.hi, threw |-> first.threw,
                           calls |-> first.calls, log |-> first.log])

sign(n) == IF n < 0 THEN 0 - 1 ELSE IF n > 0 THEN 1 ELSE 0

\* lines 148-153 with their comparator turned round in its first key
compareCalls_oldestFirst(a, b) ==
    IF a.createdSortKey # b.createdSortKey
    THEN IF a.createdSortKey.inf THEN 0 - 1
         ELSE IF b.createdSortKey.inf THEN 1
         ELSE sign(a.createdSortKey.v - b.createdSortKey.v)
    ELSE IF a.messageId # b.messageId THEN sign(a.messageId - b.messageId)
    ELSE sign(a.callId - b.callId)

\* lines 148-153 without the messageId key
compareCalls_noMessageId(a, b) ==
    IF a.createdSortKey # b.createdSortKey
    THEN IF a.createdSortKey.inf THEN 1
         ELSE IF b.createdSortKey.inf THEN 0 - 1
         ELSE sign(b.createdSortKey.v - a.createdSortKey.v)
    ELSE sign(a.callId - b.callId)

\* lines 148-153: ids compare as localeCompare compares the strings they stand
\* for
compareCalls(a, b) ==
    IF a.createdSortKey # b.createdSortKey
    THEN IF a.createdSortKey.inf THEN 1
         ELSE IF b.createdSortKey.inf THEN 0 - 1
         ELSE sign(b.createdSortKey.v - a.createdSortKey.v)
    ELSE IF a.messageId # b.messageId THEN sign(a.messageId - b.messageId)
    ELSE sign(a.callId - b.callId)

\* Array.prototype.sort is stable: an entry goes behind those that compare
\* equal to it
insertCall(x, sorted) ==
    LET p == Cardinality({ k \in 1..Len(sorted) : compareCalls(sorted[k], x) <= 0 })
    IN  SubSeq(sorted, 1, p) \o <<x>> \o SubSeq(sorted, p + 1, Len(sorted))

RECURSIVE sortRange(_, _)
sortRange(calls, loop) ==
    IF loop.lo > loop.hi THEN loop.sorted
    ELSE IF loop.lo = loop.hi THEN insertCall(calls[loop.lo], loop.sorted)
    ELSE LET mid == (loop.lo + loop.hi) \div 2
             first == [lo |-> loop.lo, hi |-> mid, sorted |-> loop.sorted]
         IN  sortRange(calls, [lo |-> mid + 1, hi |-> loop.hi,
                               sorted |-> sortRange(calls, first)])

sortCalls(calls) == sortRange(calls, [lo |-> 1, hi |-> Len(calls), sorted |-> << >>])

\* line 155 without the destructuring
toolCallRow_keepsSortKey(c) == c

\* line 155: the row without its sort key
toolCallRow(c) ==
    [sessionId |-> c.sessionId, messageId |-> c.messageId, callId |-> c.callId,
     tool |-> c.tool, status |-> c.status, createdAtMs |-> c.createdAtMs,
     output |-> c.output, error |-> c.error]

\* lines 146-160 with the cap read as "at least"
capCalls_atLeast(calls, truncatedByMessages) ==
    LET truncatedByCalls == Len(calls) >= MAX_TOOL_CALLS
        sorted == sortCalls(calls)
        capped == slice(sorted, MAX_TOOL_CALLS)
    IN  [toolCalls |-> [k \in 1..Len(capped) |-> toolCallRow(capped[k])],
         truncated |-> (truncatedByMessages \/ truncatedByCalls)]

\* lines 146-160
capCalls(calls, truncatedByMessages) ==
    LET truncatedByCalls == Len(calls) > MAX_TOOL_CALLS
        sorted == sortCalls(calls)
        capped == slice(sorted, MAX_TOOL_CALLS)
    IN  [toolCalls |-> [k \in 1..Len(capped) |-> toolCallRow(capped[k])],
         truncated |-> (truncatedByMessages \/ truncatedByCalls)]

\* lines 119-122: TRUE when the guard on the message directory throws
messageDirRefused(messageStorage, sessionId, allowedRoots) ==
    /\ toolCallsGetMessageDir(messageStorage, sessionId).exists
    /\ Len(allowedRoots) > 0
    /\ ~isAllowedPath(messageDirPath(messageStorage, sessionId), allowedRoots)

\* line 124 read from the records kept
truncatedByMessagesOf_kept(scanned) == Len(scanned.metas) > MAX_TOOL_CALL_MESSAGES

\* line 124
truncatedByMessagesOf(scanned) == scanned.totalMessages > MAX_TOOL_CALL_MESSAGES

\* the whole call: threw, or the value returned
deriveToolCalls(messageStorage, partStorage, sessionId, allowedRoots) ==
    IF messageDirRefused(messageStorage, sessionId, allowedRoots)
    THEN [threw |-> TRUE, toolCalls |-> << >>, truncated |-> FALSE]
    ELSE LET scanned == toolCallsReadRecentMessageMetas(
                            toolCallsGetMessageDir(messageStorage, sessionId),
                            MAX_TOOL_CALL_MESSAGES)
             loop == collectCalls(partStorage, sessionId, allowedRoots, scanned.metas,
                                  [lo |-> 1, hi |-> Len(scanned.metas), threw |-> FALSE,
                                   calls |-> << >>, log |-> << >>])
         IN  IF loop.threw THEN [threw |-> TRUE, toolCalls |-> << >>, truncated |-> FALSE]
             ELSE LET r == capCalls(loop.calls, truncatedByMessagesOf(scanned))
                  IN  [threw |-> FALSE, toolCalls |-> r.toolCalls, truncated |-> r.truncated]

----------------------------------------------------------------------------
(* deriveToolCalls, called on stores of several shapes *)

Secret == JObject(<<JField("prompt", JString("SECRET")),
                    JField("nested", JObject(<<JField("output", JString("HIDDEN"))>>))>>)
Listing == JObject(<<JField("input", JString("ls")), JField("lines", JString("NOPE"))>>)

BashCall == StoredPart(3, TRUE, "tool", PStr(1), PStr("bash"), PartState("completed", JString("NOPE"), JString("NOPE"), Secret))
NamelessCall == StoredPart(1, TRUE, "tool", PNone, PStr("bash"), PartState("running", JUndefined, JUndefined, Secret))
ProsePart == StoredPart(2, TRUE, "text", PNone, PNone, NoState)
TornPart == StoredPart(4, FALSE, "", PNone, PNone, NoState)
ReadCall == StoredPart(2, TRUE, "tool", PStr(1), PStr("read"), PartState("weird", Listing, JUndefined, JUndefined))
GrepCall == StoredPart(1, TRUE, "tool", PStr(1), PStr("grep"), NoState)
LaterCall == StoredPart(1, TRUE, "tool", PStr(2), PStr("bash"), PartState("error", JUndefined, JString("NOPE"), Secret))

\* message 1: a call, a tool part without callID, a text part, a torn file;
\* message 2: two files with one callID; message 3 has no part directory
FeedMsgIds == {1, 2, EscapingId}
FeedParts ==
    [m \in FeedMsgIds |-> IF m = 1 THEN <<BashCall, NamelessCall, ProsePart, TornPart>>
                          ELSE IF m = 2 THEN <<ReadCall, GrepCall>>
                          ELSE <<LaterCall, BashCall>>]

MaxFeedFiles == 2
FeedCreated == {NotNum, Num(5), Num(9)}

\* the k-th file listed: a valid file or a torn one, its modification time
\* distinct from the others' or tied with them
FeedFiles(k) ==
    { MessageFile(id, TRUE, c, NonString, t) : id \in FeedMsgIds, c \in FeedCreated, t \in {1, k} }
        \cup { MessageFile(1, FALSE, NotNum, NonString, t) : t \in {1, k} }

RECURSIVE FeedListings(_)
FeedListings(n) ==
    IF n = 0 THEN { << >> }
    ELSE { Append(fs, f) : fs \in FeedListings(n - 1), f \in FeedFiles(n) }

\* ses_child_a holds a message whose part directory is missing; the stranger
\* has no message directory
OrphanMsg == 3
FeedStores ==
    { [ms |-> (MainId :> fs) @@ (ChildA :> <<MessageFile(OrphanMsg, TRUE, Num(5), NonString, 1), MessageFile(1, TRUE, NotNum, NonString, 2)>>),
       ps |-> FeedParts] : fs \in UNION { FeedListings(n) : n \in 0..MaxFeedFiles } }

\* stores at the two caps: n message files of p calls each, the oldest file
\* torn or whole, the modification times distinct or all one
PlainCalls(p) ==
    [j \in 1..p |-> StoredPart(j, TRUE, "tool", PStr(j), PStr("bash"), PartState("completed", JString("NOPE"), JUndefined, JUndefined))]

LongStore(n, p, oldestOk, tied) ==
    [ms |-> (MainId :> [k \in 1..n |-> MessageFile(k, k > 1 \/ oldestOk, IF k % 3 = 0 THEN NotNum ELSE Num(k % 3), NonString, IF tied THEN 1 ELSE k)]),
     ps |-> [m \in 1..n |-> PlainCalls(p)]]

LongStores ==
    { LongStore(MAX_TOOL_CALL_MESSAGES, 1, TRUE, FALSE),
      LongStore(MAX_TOOL_CALL_MESSAGES + 1, 1, TRUE, FALSE),
      LongStore(MAX_TOOL_CALL_MESSAGES + 1, 1, FALSE, FALSE),
      LongStore(MAX_TOOL_CALL_MESSAGES + 1, 1, TRUE, TRUE),
      LongStore(MAX_TOOL_CALLS \div 2, 2, TRUE, FALSE),
      LongStore(MAX_TOOL_CALLS \div 2 + 1, 2, TRUE, FALSE) }

RootChoices == {NoRoots, <<StorageRoot>>, <<ElsewhereRoot>>}

FeedCall(sessionId, allowedRoots) ==
    [pc |-> "call", sessionId |-> sessionId, allowedRoots |-> allowedRoots,
     metas |-> << >>, truncatedByMessages |-> FALSE, calls |-> << >>, log |-> << >>,
     toolCalls |-> << >>, truncated |-> FALSE]

InitFeed ==
    /\ sessions = << >>
    /\ \E st \in FeedStores \cup LongStores : messages = st.ms /\ parts = st.ps
    /\ ScanIdle
    /\ label = NonString
    /\ canon = "unset"
    /\ probe = NoProbe
    /\ scan = NoScan
    /\ \E s \in {MainId, ChildA, Stranger}, r \in RootChoices :
           /\ s # MainId => messages[MainId] = << >>
           /\ feed = FeedCall(s, r)

\* lines 119-124
DeriveToolCallsScan ==
    /\ feed.pc = "call"
    /\ IF messageDirRefused(messages, feed.sessionId, feed.allowedRoots)
       THEN feed' = [feed EXCEPT !.pc = "failed"]
       ELSE LET scanned == toolCallsReadRecentMessageMetas(
                               toolCallsGetMessageDir(messages, feed.sessionId),
                               MAX_TOOL_CALL_MESSAGES)
            IN  feed' = [feed EXCEPT !.pc = "collect", !.metas = scanned.metas,
                                     !.truncatedByMessages = truncatedByMessagesOf(scanned)]
    /\ UNCHANGED <<store, pc, locals, result, label, canon, scan, probe>>

\* lines 126-144
DeriveToolCallsCollect ==
    /\ feed.pc = "collect"
    /\ LET loop == collectCalls(parts, feed.sessionId, feed.allowedRoots, feed.metas,
                                [lo |-> 1, hi |-> Len(feed.metas), threw |-> FALSE,
                                 calls |-> << >>, log |-> << >>])
       IN  feed' = [feed EXCEPT !.pc = IF loop.threw THEN "failed" ELSE "sort",
                                !.calls = IF loop.threw THEN << >> ELSE loop.calls,
                                !.log = loop.log]
    /\ UNCHANGED <<store, pc, locals, result, label, canon, scan, probe>>

\* lines 146-160
DeriveToolCallsReturn ==
    /\ feed.pc = "sort"
    /\ LET r == capCalls(feed.calls, feed.truncatedByMessages)
       IN  feed' = [feed EXCEPT !.pc = "done", !.toolCalls = r.toolCalls,
                                !.truncated = r.truncated]
    /\ UNCHANGED <<store, pc, locals, result, label, canon, scan, probe>>

NextFeed == DeriveToolCallsScan \/ DeriveToolCallsCollect \/ DeriveToolCallsReturn

SpecFeed == InitFeed /\ [][NextFeed]_vars

----------------------------------------------------------------------------
(* bucketMessageTools and bucketBackgroundTools, called on one directory *)

MaxBreakFiles == 3

\* the files of a directory in their scan order: modification times tie, so
\* the order of the listing is the order of the scan
BreakFiles ==
    { MessageFile(id, TRUE, c, IF id = 1 THEN lblSisyphusV2 ELSE NonString, 1) :
          id \in {1, 2}, c \in CreatedValues }

RECURSIVE BreakListings(_)
BreakListings(n) ==
    IF n = 0 THEN { << >> }
    ELSE { Append(fs, f) : fs \in BreakListings(n - 1), f \in BreakFiles }

InitBreak ==
    /\ sessions = << >>
    /\ messages \in { (MainId :> fs) : fs \in UNION { BreakListings(n) : n \in 0..MaxBreakFiles } }
    /\ parts = PartFixture
    /\ pc = "tools"
    /\ \E now \in NowValues, win \in Windows :
           /\ opts = [mainSessionId |-> MainId, nowMs |-> now, windowMs |-> win.w,
                      bucketMs |-> win.b]
           /\ frame = [buckets |-> bucketCount(win.w, win.b),
                       anchorMs |-> anchorOf(now, win.b),
                       startMs |-> anchorOf(now, win.b) - win.w]
    /\ overall = << >>
    /\ sisyphus = << >>
    /\ prometheus = << >>
    /\ atlas = << >>
    /\ background = << >>
    /\ childSessions = << >>
    /\ result = NoResult
    /\ label = NonString
    /\ canon = "unset"
    /\ probe = NoProbe
    /\ scan = NoScan
    /\ feed = NoFeed

\* lines 115-151 on the main directory, from arrays of zeros
BucketMessageTools ==
    /\ pc = "tools"
    /\ LET acc == bucketMessageTools(getMessageDir(messages, opts.mainSessionId),
                                     currentScan, TRUE, zeroAcc(frame.buckets))
       IN  /\ overall' = acc.overall
           /\ sisyphus' = acc.sisyphus
           /\ prometheus' = acc.prometheus
           /\ atlas' = acc.atlas
    /\ pc' = "background-tools"
    /\ UNCHANGED <<store, opts, frame, background, childSessions, result, label, canon,
                   scan, feed, probe>>

\* lines 153-182 on the same directory, from an array of zeros
BucketBackgroundTools ==
    /\ pc = "background-tools"
    /\ background' = bucketBackgroundTools(messages, <<opts.mainSessionId>>, currentScan,
                                           zeroBuckets(frame.buckets))
    /\ pc' = "bucketed"
    /\ UNCHANGED <<store, opts, frame, overall, sisyphus, prometheus, atlas, childSessions,
                   result, label, canon, scan, feed, probe>>

NextBreak == BucketMessageTools \/ BucketBackgroundTools

SpecBreak == InitBreak /\ [][NextBreak]_vars

----------------------------------------------------------------------------
(* deriveTimeSeriesActivity with a writer at work during the call *)

MaxRaceWrites == 1

\* a child directory of n message files, each with one tool part, their
\* creation times spread over the values the windows cut
RaceDir(n) ==
    [k \in 1..n |-> MessageFile(k, TRUE, IF k % 3 = 0 THEN Num(1) ELSE Num(5), lblAtlas, k)]

RaceSizes == {0, 1, MAX_MESSAGES - 1, MAX_MESSAGES}

RaceSessions == << SessionMeta(MainId, NoId, Num(3)), SessionMeta(ChildA, MainId, Num(1)) >>

RaceParts == [m \in 1..(MAX_MESSAGES + MaxRaceWrites + 1) |-> <<ToolPart>>]

InitRace ==
    /\ sessions = RaceSessions
    /\ \E n \in RaceSizes :
           \E main \in {<< >>, <<MessageFile(MAX_MESSAGES + MaxRaceWrites + 1, TRUE, Num(5), lblSisyphusV2, 1)>>} :
               messages = (MainId :> main) @@ (ChildA :> RaceDir(n))
    /\ parts = RaceParts
    /\ IdleCall
    /\ label = NonString
    /\ canon = "unset"
    /\ probe = NoProbe

\* the files the writer has added: its message files carry the label of the
\* child agent, its part files are those beyond the one each message has
raceWrites ==
    Cardinality({ k \in 1..Len(messages[ChildA]) : messages[ChildA][k].agent = lblSisyphusJunior })
        + Cardinality({ m \in DOMAIN parts : Len(parts[m]) > 1 })

\* the writer appends a message file to the child session between the two
\* scans of the call; the file is the most recently modified of the directory
RaceWriteMessage(c) ==
    /\ pc = "agents"
    /\ raceWrites < MaxRaceWrites
    /\ messages' = [messages EXCEPT ![ChildA] =
                        Append(@, MessageFile(Len(@) + 1, TRUE, c, lblSisyphusJunior, Len(@) + 1))]
    /\ UNCHANGED <<sessions, parts, pc, locals, result, label, canon, scan, feed, probe>>

\* the writer appends a part file to a message of the child session
RaceWritePart(m) ==
    /\ pc = "agents"
    /\ raceWrites < MaxRaceWrites
    /\ m \in 1..Len(messages[ChildA])
    /\ Len(parts[m]) = 1
    /\ parts' = [parts EXCEPT ![m] = Append(@, ToolPart)]
    /\ UNCHANGED <<sessions, messages, pc, locals, result, label, canon, scan, feed, probe>>

RaceWrite ==
    \/ \E c \in {NotNum, Num(5)} : RaceWriteMessage(c)
    \/ \E m \in DOMAIN parts : m <= MaxRaceWrites /\ RaceWritePart(m)

RaceNow == 7

RaceCall == \E wb \in Windows : Begin(MainId, RaceNow, wb.w, wb.b)

NextRace ==
    \/ RaceCall
    \/ RaceWrite
    \/ BucketBackground
    \/ BucketSessionAgents
    \/ Return

SpecRace == InitRace /\ [][NextRace]_vars

----------------------------------------------------------------------------
(* findAvailablePort and canListen                                         *)

\* a preferredPort argument: a whole number, or a number that is not whole
\* (NaN, a fraction, an infinity)
Whole(n) == [whole |-> TRUE, v |-> n]
Fractional == [whole |-> FALSE]

\* the maxTries argument: given, or left out
MaxTriesArg(n) == [given |-> TRUE, v |-> n]
NoMaxTries == [given |-> FALSE]

\* maxTries = 20
DefaultMaxTries == 20

maxTriesOf(arg) == IF arg.given THEN arg.v ELSE DefaultMaxTries

\* !Number.isInteger(preferredPort) || preferredPort <= 0
preferredPortRefused(preferredPort) == ~preferredPort.whole \/ preferredPort.v <= 0

\* an alternative portAt, which starts one above preferredPort
portAt_fromOne(preferredPort, offset) == preferredPort.v + offset + 1

\* const port = preferredPort + offset
portAt(preferredPort, offset) == preferredPort.v + offset

\* the largest port server.listen accepts; beyond it the call throws
MaxPortNumber == 65535

\* the hosts of a call: one the machine can bind, one it cannot
LocalHost == "127.0.0.1"
ForeignHost == "192.0.2.1"

\* preferredPort: 51234
TestPort == 51234

\* the largest maxTries given in a call, and the ports above preferredPort
\* that other processes bind and release
MaxTries == 2

PreferredPorts == {Fractional, Whole(-1), Whole(0), Whole(TestPort), Whole(MaxPortNumber - 1)}
MaxTriesArgs == {NoMaxTries} \cup { MaxTriesArg(n) : n \in 0..MaxTries }

\* the ports other processes may hold during a call
contended(preferredPort) ==
    IF preferredPortRefused(preferredPort) THEN {}
    ELSE { p \in preferredPort.v..(preferredPort.v + MaxTries) : p <= MaxPortNumber }

InitPorts ==
    /\ sessions = << >>
    /\ messages = [s \in WriterSessions |-> << >>]
    /\ parts = PartFixture
    /\ ScanIdle
    /\ label = NonString
    /\ canon = "unset"
    /\ scan = NoScan
    /\ feed = NoFeed
    /\ \E h \in {LocalHost, ForeignHost}, pp \in PreferredPorts, mt \in MaxTriesArgs :
           \E busy \in SUBSET contended(pp) :
               probe = [pc |-> "call", host |-> h, preferredPort |-> pp,
                        maxTries |-> maxTriesOf(mt), offset |-> 0, servers |-> << >>,
                        inUse |-> busy, port |-> 0]

\* lines 47-49
FindAvailablePort ==
    /\ probe.pc = "call"
    /\ probe' = [probe EXCEPT !.pc = IF preferredPortRefused(probe.preferredPort)
                                     THEN "rejected" ELSE "loop"]
    /\ UNCHANGED <<store, pc, locals, result, label, canon, scan, feed>>

\* lines 51-53 and 63-74, up to the await: the loop test, and the probe server
\* of the next port; after the last offset, lines 57-59
CanListen ==
    /\ probe.pc = "loop"
    /\ IF probe.offset < probe.maxTries
       THEN LET port == portAt(probe.preferredPort, probe.offset)
            IN  IF port > MaxPortNumber
                THEN probe' = [probe EXCEPT !.pc = "rejected",
                                   !.servers = Append(@, [port |-> port, state |-> "refused"])]
                ELSE probe' = [probe EXCEPT !.pc = "await",
                                   !.servers = Append(@, [port |-> port, state |-> "binding"])]
       ELSE probe' = [probe EXCEPT !.pc = "rejected"]
    /\ UNCHANGED <<store, pc, locals, result, label, canon, scan, feed>>

\* the server in flight
current == probe.servers[Len(probe.servers)]

cannotBind == probe.host # LocalHost \/ current.port \in probe.inUse

\* lines 66-68, then the loop's offset++
OnError ==
    /\ probe.pc = "await"
    /\ current.state = "binding"
    /\ cannotBind
    /\ probe' = [probe EXCEPT !.pc = "loop", !.offset = @ + 1,
                              !.servers[Len(probe.servers)].state = "errored"]
    /\ UNCHANGED <<store, pc, locals, result, label, canon, scan, feed>>

\* lines 70-71: the server holds the port and close is under way
OnListening ==
    /\ probe.pc = "await"
    /\ current.state = "binding"
    /\ ~cannotBind
    /\ probe' = [probe EXCEPT !.servers[Len(probe.servers)].state = "closing"]
    /\ UNCHANGED <<store, pc, locals, result, label, canon, scan, feed>>

\* line 71's callback, then line 54
OnClosed ==
    /\ probe.pc = "await"
    /\ current.state = "closing"
    /\ probe' = [probe EXCEPT !.pc = "resolved", !.port = current.port,
                              !.servers[Len(probe.servers)].state = "closed"]
    /\ UNCHANGED <<store, pc, locals, result, label, canon, scan, feed>>

\* another process binds or releases a port while the call runs; it cannot
\* bind the port the probe server holds
OtherProcess ==
    /\ probe.pc \in {"loop", "await"}
    /\ \E p \in contended(probe.preferredPort) :
           /\ ~(probe.pc = "await" /\ current.state = "closing" /\ current.port = p)
           /\ probe' = [probe EXCEPT !.inUse = IF p \in @ THEN @ \ {p} ELSE @ \cup {p}]
    /\ UNCHANGED <<store, pc, locals, result, label, canon, scan, feed>>

\* the steps of the call itself
ProbeStep == FindAvailablePort \/ CanListen \/ OnError \/ OnListening \/ OnClosed

NextPorts == FindAvailablePort \/ CanListen \/ OnError \/ OnListening \/ OnClosed \/ OtherProcess

SpecPorts == InitPorts /\ [][NextPorts]_vars

\* the event loop delivers the socket's event and runs the continuation of
\* every await
SpecPortsFair == SpecPorts /\ WF_vars(ProbeStep)

----------------------------------------------------------------------------
(* What the claims speak of, stated without the code's loops *)

Categories == {"sisyphus", "prometheus", "atlas", "other"}
AgentCategories == {"sisyphus", "prometheus", "atlas"}

\* values[i] of the code, 0 where the array has no such index
At(values, i) == IF i + 1 \in DOMAIN values THEN values[i + 1] ELSE 0

\* the parsable part files of type "tool" of a message
ToolParts(messageId) ==
    IF messageId \in DOMAIN parts
    THEN Cardinality({k \in DOMAIN parts[messageId] : parts[messageId][k] = ToolPart})
    ELSE 0

\* a valid message with start <= created < anchor
InWindow(f) ==
    /\ f.ok
    /\ f.created.num
    /\ frame.startMs <= f.created.v
    /\ f.created.v < frame.anchorMs

IndexOf(f) == (f.created.v - frame.startMs) \div opts.bucketMs

\* the tool parts of the in-window messages of a directory that fall in bucket i
\* and whose label canonicalizes into cats
RECURSIVE DirSumFrom(_, _, _, _)
DirSumFrom(dir, k, i, cats) ==
    IF k > Len(dir) THEN 0
    ELSE (IF InWindow(dir[k]) /\ IndexOf(dir[k]) = i
             /\ canonicalizeAgent(dir[k].agent) \in cats
          THEN ToolParts(dir[k].id) ELSE 0)
         + DirSumFrom(dir, k + 1, i, cats)

DirSum(dir, i, cats) == DirSumFrom(dir, 1, i, cats)

MainDir == getMessageDir(messages, opts.mainSessionId)

\* the same sum over the message directories of the sessions whose id is in ids
RECURSIVE SessionsSumOver(_, _, _, _, _)
SessionsSumOver(lo, hi, ids, i, cats) ==
    IF lo > hi THEN 0
    ELSE IF lo = hi
    THEN (IF sessions[lo].id \in ids
          THEN DirSum(getMessageDir(messages, sessions[lo].id), i, cats) ELSE 0)
    ELSE LET mid == (lo + hi) \div 2
         IN  SessionsSumOver(lo, mid, ids, i, cats)
             + SessionsSumOver(mid + 1, hi, ids, i, cats)

SessionsSum(ids, i, cats) == SessionsSumOver(1, Len(sessions), ids, i, cats)

Range(seq) == { seq[k] : k \in DOMAIN seq }

\* every index floor((t - start) / bucket) an in-window message can have
WindowIndexes == 0..((opts.windowMs - 1) \div opts.bucketMs)
BucketIndexes == 0..(frame.buckets - 1)

SeriesValues(payload, k) == payload.series[k].values

AllZero(values) == \A k \in DOMAIN values : values[k] = 0

\* some message of the directory is in the window and has tool parts
HasActivity(dir) ==
    \E k \in DOMAIN dir : InWindow(dir[k]) /\ ToolParts(dir[k].id) > 0

----------------------------------------------------------------------------
(* C1: when the bucket divides the window, the result has the five series in
   the fixed order, buckets = window / bucket, and every values array has
   exactly that length. *)
C1_FiveSeriesOfLengthWoverB ==
    (pc = "done" /\ opts.windowMs % opts.bucketMs = 0) =>
        /\ Len(result.series) = 5
        /\ [k \in 1..5 |-> result.series[k].id] =
              <<"overall-main", "agent:sisyphus", "agent:prometheus", "agent:atlas",
                "background-total">>
        /\ result.buckets * opts.bucketMs = opts.windowMs
        /\ \A k \in 1..5 : Len(SeriesValues(result, k)) * opts.bucketMs = opts.windowMs

C1_Witness ==
    /\ pc = "done"
    /\ opts.windowMs % opts.bucketMs = 0
    /\ opts.mainSessionId = MainId
    /\ result.buckets = 2
    /\ \E k \in 1..2 : SeriesValues(result, 1)[k] > 0

(* C2: with no main session the five series are all zeros whatever the store
   holds, and their id, label and tone are the fixed ones. *)
C2_NoMainSessionAllZero ==
    (pc = "done" /\ opts.mainSessionId = NoId) =>
        /\ \A k \in 1..5 :
              /\ AllZero(SeriesValues(result, k))
              /\ Len(SeriesValues(result, k)) = result.buckets
        /\ [k \in 1..5 |-> <<result.series[k].id, result.series[k].label,
                             result.series[k].tone>>] =
              << <<"overall-main", "Overall", "muted">>,
                 <<"agent:sisyphus", "Sisyphus", "teal">>,
                 <<"agent:prometheus", "Prometheus", "red">>,
                 <<"agent:atlas", "Atlas", "green">>,
                 <<"background-total", "Background tasks (total)", "muted">> >>

C2_Witness ==
    /\ pc = "done"
    /\ opts.mainSessionId = NoId
    /\ result.buckets > 0
    /\ HasActivity(messages[MainId])
    /\ HasActivity(messages[ChildA])

(* C3: after the scan of the main session, every valid message with
   start <= t < anchor has added its tool parts to overall-main at index
   floor((t - start) / bucket), and no other message has added anything. *)
C3_EveryWindowMessageCounted ==
    (pc = "background" /\ opts.mainSessionId = MainId) =>
        \A i \in WindowIndexes :
            /\ At(overall, i) = DirSum(MainDir, i, Categories)
            /\ At(sisyphus, i) + At(prometheus, i) + At(atlas, i) <= At(overall, i)

\* the part of C3 that the code keeps: the same, for the indexes the arrays have
C3_InRangeMessagesCounted ==
    (pc = "background" /\ opts.mainSessionId = MainId) =>
        /\ AllZero(background)
        /\ \A i \in BucketIndexes :
              /\ At(overall, i) = DirSum(MainDir, i, Categories)
              /\ At(sisyphus, i) + At(prometheus, i) + At(atlas, i) <= At(overall, i)

(* C4: a counted main-session message adds its tool parts to the one agent
   series its label canonicalizes to, at the same bucket, and to no other
   agent series; a message that canonicalizes to other adds to overall-main
   only. *)
C4_AgentSeriesOfMainMessages ==
    (pc = "background" /\ opts.mainSessionId = MainId) =>
        \A i \in BucketIndexes :
            /\ At(sisyphus, i) = DirSum(MainDir, i, {"sisyphus"})
            /\ At(prometheus, i) = DirSum(MainDir, i, {"prometheus"})
            /\ At(atlas, i) = DirSum(MainDir, i, {"atlas"})
            /\ At(overall, i) = At(sisyphus, i) + At(prometheus, i) + At(atlas, i)
                                  + DirSum(MainDir, i, {"other"})

C4_Witness ==
    /\ pc = "background"
    /\ opts.mainSessionId = MainId
    /\ \E i \in BucketIndexes :
          /\ At(prometheus, i) > 0
          /\ At(overall, i) > At(prometheus, i)
          /\ At(sisyphus, i) = 0
          /\ At(atlas, i) = 0

----------------------------------------------------------------------------
(* C5: canonicalizeAgent, read off the claim *)

CasePairs == { <<UpperLetters[k], LowerLetters[k]>> : k \in DOMAIN UpperLetters }

LowerOf(c) == IF \E q \in CasePairs : q[1] = c
              THEN (CHOOSE q \in CasePairs : q[1] = c)[2] ELSE c

\* the label without its leading and trailing whitespace
TrimmedOf(cs) ==
    LET inked == { k \in DOMAIN cs : cs[k] \notin Whitespace }
    IN  IF inked = {} THEN << >>
        ELSE LET first == CHOOSE k \in inked : \A j \in inked : k <= j
                 last == CHOOSE k \in inked : \A j \in inked : k >= j
             IN  [k \in 1..(last - first + 1) |-> cs[first + k - 1]]

HasPrefix(cs, p) == Len(p) <= Len(cs) /\ \A k \in DOMAIN p : cs[k] = p[k]

CategoryOf(agent) ==
    IF ~agent.str THEN "other"
    ELSE LET t == TrimmedOf(agent.chars)
             l == [k \in DOMAIN t |-> LowerOf(t[k])]
         IN  IF t = << >> THEN "other"
             ELSE IF HasPrefix(l, cSisyphusJunior) \/ HasPrefix(l, cSisyphus) THEN "sisyphus"
             ELSE IF HasPrefix(l, cPrometheus) THEN "prometheus"
             ELSE IF HasPrefix(l, cAtlas) THEN "atlas"
             ELSE "other"

(* C5: canonicalizeAgent always returns one of the four categories: other for
   a non-string, empty or whitespace-only label, otherwise the category whose
   name the trimmed, lower-cased label starts with, and other when it starts
   with none (also when a name appears later in the label). *)
C5_CanonicalizeAgentByPrefix ==
    (canon # "unset") => (canon \in Categories /\ canon = CategoryOf(label))

C5_Witness ==
    /\ canon = "other"
    /\ label.str
    /\ Len(label.chars) > 0
    /\ label.chars[1] \notin Whitespace
    /\ includes(toLowerCase(label.chars), cAtlas)

C7_AgentSeriesIgnoreChildren ==
    (pc = "done") =>
        LET alone == deriveTimeSeriesActivity(<< >>, messages, parts, opts.mainSessionId,
                                              opts.nowMs, opts.windowMs, opts.bucketMs)
        IN  \A k \in 2..4 : SeriesValues(result, k) = SeriesValues(alone, k)

C7_Witness ==
    /\ pc = "done"
    /\ opts.mainSessionId = MainId
    /\ \E k \in DOMAIN messages[ChildA] :
          LET f == messages[ChildA][k]
          IN  /\ InWindow(f)
              /\ IndexOf(f) \in BucketIndexes
              /\ ToolParts(f.id) > 0
              /\ canonicalizeAgent(f.agent) = "sisyphus"
              /\ At(SeriesValues(result, 5), IndexOf(f)) > 0
              /\ AllZero(SeriesValues(result, 2))

(* C8: every in-window message with tool parts of a selected child session
   adds them at floor((t - start) / bucket) to background-total and to
   overall-main, and the main session's messages add nothing to
   background-total. *)
C8_ChildMessagesCountedTwice ==
    (pc = "done" /\ opts.mainSessionId = MainId) =>
        \A i \in WindowIndexes :
            /\ At(SeriesValues(result, 5), i) =
                  SessionsSum(Range(childSessions), i, Categories)
            /\ At(SeriesValues(result, 1), i) =
                  DirSum(MainDir, i, Categories)
                  + SessionsSum(Range(childSessions), i, Categories)

\* the part of C8 that the code keeps: the same, for the indexes the arrays have
C8_InRangeChildMessagesCountedTwice ==
    (pc = "done" /\ opts.mainSessionId = MainId) =>
        \A i \in BucketIndexes :
            /\ At(SeriesValues(result, 5), i) =
                  SessionsSum(Range(childSessions), i, Categories)
            /\ At(SeriesValues(result, 1), i) =
                  DirSum(MainDir, i, Categories)
                  + SessionsSum(Range(childSessions), i, Categories)

----------------------------------------------------------------------------
(* C9: the child sessions, read off the claim *)

UpdatedOrZero(meta) == IF meta.updated.num THEN meta.updated.v ELSE 0

ChildrenOf(mainSessionId) ==
    { sessions[k] : k \in { j \in DOMAIN sessions : sessions[j].parentID = mainSessionId } }

\* a comes before b: later updated first, smaller id first among equals
Outranks(a, b) ==
    \/ UpdatedOrZero(a) > UpdatedOrZero(b)
    \/ (UpdatedOrZero(a) = UpdatedOrZero(b) /\ a.id < b.id)

TopChildren(mainSessionId) ==
    { c \in ChildrenOf(mainSessionId) :
        Cardinality({ d \in ChildrenOf(mainSessionId) : Outranks(d, c) }) < MAX_CHILD_SESSIONS }

TopChildIds == { c.id : c \in TopChildren(opts.mainSessionId) }

ChildWithId(id) == CHOOSE c \in ChildrenOf(opts.mainSessionId) : c.id = id

(* C9: the child sessions the call uses are exactly the first 25 of the
   sessions whose parentID is the main session id, by updated descending
   (missing counted as 0) and id ascending; the series hold the tool parts of
   these sessions and of no other child or non-child session. *)
C9_First25Children ==
    (pc # "idle" /\ opts.mainSessionId = MainId) =>
        /\ Range(childSessions) = TopChildIds
        /\ Len(childSessions) = Cardinality(Range(childSessions))
        /\ Len(childSessions) <= MAX_CHILD_SESSIONS
        /\ \A j \in DOMAIN childSessions :
              j < Len(childSessions) =>
                  Outranks(ChildWithId(childSessions[j]), ChildWithId(childSessions[j + 1]))
        /\ (pc = "done" =>
              \A i \in BucketIndexes :
                  /\ At(SeriesValues(result, 5), i) =
                        SessionsSum(Range(childSessions), i, Categories)
                  /\ At(SeriesValues(result, 1), i) =
                        DirSum(MainDir, i, Categories)
                        + SessionsSum(Range(childSessions), i, Categories))

C9_Witness ==
    /\ pc = "done"
    /\ opts.mainSessionId = MainId
    /\ Cardinality(ChildrenOf(MainId)) > MAX_CHILD_SESSIONS
    /\ Len(childSessions) = MAX_CHILD_SESSIONS
    /\ \E c \in ChildrenOf(MainId) :
          /\ c.id = ChildZ
          /\ c.id \notin Range(childSessions)
          /\ HasActivity(getMessageDir(messages, c.id))
    /\ ChildA \in Range(childSessions)
    /\ \E i \in BucketIndexes : At(SeriesValues(result, 5), i) > 0

(* C10: anchorMs = floor(now / bucket) * bucket: a multiple of the bucket with
   anchorMs <= now < anchorMs + bucket; serverNowMs = now; and a call at any
   other now of the same bucket, on the same store, returns the same anchorMs
   and the same series. *)
C10_AnchorSnapsToBucket ==
    (pc = "done") =>
        /\ result.anchorMs % opts.bucketMs = 0
        /\ result.anchorMs <= opts.nowMs
        /\ opts.nowMs < result.anchorMs + opts.bucketMs
        /\ result.serverNowMs = opts.nowMs
        /\ \A now2 \in result.anchorMs..(result.anchorMs + opts.bucketMs - 1) :
              LET again == deriveTimeSeriesActivity(sessions, messages, parts,
                               opts.mainSessionId, now2, opts.windowMs, opts.bucketMs)
              IN  /\ again.anchorMs = result.anchorMs
                  /\ again.series = result.series

C10_Witness ==
    /\ pc = "done"
    /\ opts.mainSessionId = MainId
    /\ result.anchorMs < opts.nowMs
    /\ \E i \in BucketIndexes : At(SeriesValues(result, 1), i) > 0

----------------------------------------------------------------------------
(* The feed and its scanner *)

Min(a, b) == IF a < b THEN a ELSE b

\* the sets of positions that hold the n greatest modification times of a listing
NewestSets(files, n) ==
    { S \in SUBSET (1..Len(files)) :
        /\ Cardinality(S) = Min(n, Len(files))
        /\ \A i \in S : \A j \in (1..Len(files)) \ S : files[i].mtime >= files[j].mtime }

(* C11: readRecentMessageMetas(dir, N) returns exactly the valid records among
   N entries of greatest modification time, whatever their time.created, with
   totalMessages the number of entries before the cap; nothing outside those
   N entries is returned although some of them are invalid; a directory that
   does not exist gives no record and total 0.  The scanner of timeseries.ts
   returns the same records. *)
C11_NewestValidRecords ==
    (scan.pc = "done") =>
        LET files == scan.messageDir.files
        IN  /\ ~scan.messageDir.exists => (scan.metas = << >> /\ scan.totalMessages = 0)
            /\ scan.messageDir.exists =>
                  /\ scan.totalMessages = Len(files)
                  /\ Len(scan.metas) = Cardinality(Range(scan.metas))
                  /\ \E S \in NewestSets(files, scan.maxMessages) :
                        Range(scan.metas) = { files[i] : i \in { j \in S : files[j].ok } }
                  /\ \A k \in 1..(Len(scan.metas) - 1) :
                        scan.metas[k].mtime >= scan.metas[k + 1].mtime
                  /\ readRecentMessageMetas(files, scan.maxMessages) = scan.metas

\* more entries than the cap, an invalid one among the newest and a valid one
\* left out
C11_Witness ==
    /\ scan.pc = "done"
    /\ scan.messageDir.exists
    /\ scan.totalMessages > scan.maxMessages
    /\ Len(scan.metas) < scan.maxMessages
    /\ Len(scan.metas) > 0
    /\ \E k \in 1..Len(scan.messageDir.files) :
          /\ scan.messageDir.files[k].ok
          /\ scan.messageDir.files[k] \notin Range(scan.metas)

----------------------------------------------------------------------------
(* The feed: caps, order, identity, redaction, guard *)

FeedDone == feed.pc = "done"

\* the message collection of the session the call was made for
FeedEntries ==
    IF feed.sessionId \in DOMAIN messages THEN messages[feed.sessionId] ELSE << >>

\* the part files of a message that are tool calls
ToolCallFiles(messageId) ==
    IF messageId \in DOMAIN parts
    THEN { k \in 1..Len(parts[messageId]) : isToolCallPart(parts[messageId][k]) }
    ELSE {}

\* c: the summaries the scanned messages lo..hi give
RECURSIVE CollectedOver(_, _)
CollectedOver(lo, hi) ==
    IF lo > hi THEN 0
    ELSE IF lo = hi THEN Cardinality(ToolCallFiles(feed.metas[lo].id))
    ELSE CollectedOver(lo, (lo + hi) \div 2) + CollectedOver((lo + hi) \div 2 + 1, hi)

Collected == CollectedOver(1, Len(feed.metas))

\* C13: a returned feed has min(c, 300) entries, c the summaries collected from
\* the scanned messages, and is marked truncated exactly when the message
\* collection has more than 200 entries or c is more than 300.
C13_CapAndTruncated ==
    FeedDone =>
        /\ Len(feed.toolCalls) = Min(Collected, MAX_TOOL_CALLS)
        /\ feed.truncated <=> (Len(FeedEntries) > MAX_TOOL_CALL_MESSAGES
                               \/ Collected > MAX_TOOL_CALLS)

\* a collection under the message cap whose calls exceed the call cap
C13_Witness ==
    /\ FeedDone
    /\ Len(FeedEntries) <= MAX_TOOL_CALL_MESSAGES
    /\ Collected > MAX_TOOL_CALLS
    /\ Len(feed.toolCalls) = MAX_TOOL_CALLS
    /\ feed.truncated

\* x may stand directly before y in the documented order
InOrder(x, y) ==
    \/ x.createdAtMs.num /\ (~y.createdAtMs.num \/ y.createdAtMs.v < x.createdAtMs.v)
    \/ x.createdAtMs = y.createdAtMs /\ x.messageId < y.messageId
    \/ x.createdAtMs = y.createdAtMs /\ x.messageId = y.messageId /\ x.callId <= y.callId

\* x sorts strictly before y
SortsBefore(x, y) ==
    InOrder(x, y) /\ ~(x.createdAtMs = y.createdAtMs /\ x.messageId = y.messageId
                       /\ x.callId = y.callId)

CollectedRows == { toolCallRow(feed.calls[k]) : k \in 1..Len(feed.calls) }
CopiesCollected(r) == Cardinality({ k \in 1..Len(feed.calls) : toolCallRow(feed.calls[k]) = r })
CopiesReturned(r) == Cardinality({ k \in 1..Len(feed.toolCalls) : feed.toolCalls[k] = r })

\* C14: the returned list is in the documented order (created descending with
\* null last, then messageId, then callId ascending), its rows are collected
\* rows, and a collected row that the cap dropped sorts before no returned row.
C14_SortedAndFirstKept ==
    FeedDone =>
        /\ \A k \in 1..(Len(feed.toolCalls) - 1) :
               InOrder(feed.toolCalls[k], feed.toolCalls[k + 1])
        /\ \A k \in 1..Len(feed.toolCalls) : feed.toolCalls[k] \in CollectedRows
        /\ \A r \in CollectedRows :
               /\ CopiesReturned(r) <= CopiesCollected(r)
               /\ CopiesReturned(r) < CopiesCollected(r) =>
                      \A k \in 1..Len(feed.toolCalls) : ~SortsBefore(r, feed.toolCalls[k])

\* a capped list holding rows with and without a creation time and rows of
\* one creation time from different messages
C14_Witness ==
    /\ FeedDone
    /\ Len(feed.calls) > MAX_TOOL_CALLS
    /\ \E r \in CollectedRows : CopiesReturned(r) = 0
    /\ \E j, k \in 1..Len(feed.toolCalls) :
           /\ j < k
           /\ feed.toolCalls[j].createdAtMs.num
           /\ ~feed.toolCalls[k].createdAtMs.num
    /\ \E k \in 1..(Len(feed.toolCalls) - 1) :
           /\ feed.toolCalls[k].createdAtMs = feed.toolCalls[k + 1].createdAtMs
           /\ feed.toolCalls[k].messageId < feed.toolCalls[k + 1].messageId

\* the row a tool-call part file of a message file stands for
RowOf(file, part) ==
    [sessionId |-> feed.sessionId, messageId |-> file.id, callId |-> part.callID.v,
     tool |-> part.tool.v, status |-> readStatus(part.state),
     createdAtMs |-> IF file.created.num THEN file.created ELSE NotNum,
     output |-> IF part.state.obj THEN part.state.output ELSE JUndefined,
     error |-> IF part.state.obj THEN part.state.error ELSE JUndefined]

ReturnedRows == { feed.toolCalls[k] : k \in 1..Len(feed.toolCalls) }

\* C20: a feed returned with truncated = false holds a row for every part file
\* of type "tool" with string tool and callID of every valid message file of
\* the session's collection.
C20_UntruncatedIsComplete ==
    (FeedDone /\ ~feed.truncated) =>
        \A k \in 1..Len(FeedEntries) :
            FeedEntries[k].ok =>
                \A j \in ToolCallFiles(FeedEntries[k].id) :
                    RowOf(FeedEntries[k], parts[FeedEntries[k].id][j]) \in ReturnedRows

\* a collection of exactly the message cap, returned whole
C20_Witness ==
    /\ FeedDone
    /\ ~feed.truncated
    /\ Len(FeedEntries) = MAX_TOOL_CALL_MESSAGES
    /\ Len(feed.toolCalls) = MAX_TOOL_CALL_MESSAGES

\* what each reader rejects
TornForFeed(part) ==
    ~part.ok \/ (part.type = "tool" /\ ~(part.tool.str /\ part.callID.str))

WithoutTornMessages(messageStorage) ==
    [s \in DOMAIN messageStorage |-> SelectSeq(messageStorage[s], LAMBDA f : f.ok)]

WithoutTornForFeed(partStorage) ==
    [m \in DOMAIN partStorage |-> SelectSeq(partStorage[m], LAMBDA p : ~TornForFeed(p))]

WithoutTornParts(partStorage) ==
    [m \in DOMAIN partStorage |-> SelectSeq(partStorage[m], LAMBDA p : p.ok)]

CleanFeed ==
    deriveToolCalls(WithoutTornMessages(messages), WithoutTornForFeed(parts),
                    feed.sessionId, NoRoots)

\* the removal leaves the same message files within the recency cap
SameFilesScanned ==
    SelectSeq(slice(rankFiles(FeedEntries), MAX_TOOL_CALL_MESSAGES), LAMBDA f : f.ok)
        = slice(rankFiles(SelectSeq(FeedEntries, LAMBDA f : f.ok)), MAX_TOOL_CALL_MESSAGES)

\* the time series of the store for one clock and window, ses_child_a being a
\* background session of ses_main
FeedClock == 12
FeedWindow == 8
FeedBucket == 2
FeedSessions == <<SessionMeta(ChildA, MainId, Num(1))>>

SeriesOf(messageStorage, partStorage) ==
    deriveTimeSeriesActivity(FeedSessions, messageStorage, partStorage, MainId,
                             FeedClock, FeedWindow, FeedBucket)

ShortStore == \A s \in DOMAIN messages : Len(messages[s]) <= MaxFeedFiles + 1

SeriesIgnoreTornFiles ==
    ShortStore =>
        SeriesOf(messages, parts)
            = SeriesOf(WithoutTornMessages(messages), WithoutTornParts(parts))

\* C12 as stated: a call without allowedRoots does not fail, and the feed and
\* the series are those of the store without its malformed files, the
\* truncated flag included.
C12_MalformedFilesChangeNothing ==
    feed.allowedRoots = NoRoots =>
        /\ feed.pc # "failed"
        /\ (FeedDone /\ SameFilesScanned) =>
               /\ ~CleanFeed.threw
               /\ feed.toolCalls = CleanFeed.toolCalls
               /\ feed.truncated = CleanFeed.truncated
        /\ SeriesIgnoreTornFiles

\* C12: a call without allowedRoots does not fail; its toolCalls are those
\* of the store without the malformed files, and truncated is that of the
\* cleaned store or is true because the collection, malformed files counted,
\* has more than 200 entries; the series are those of the cleaned store.
C12_MalformedFilesOnlyCount ==
    feed.allowedRoots = NoRoots =>
        /\ feed.pc # "failed"
        /\ (FeedDone /\ SameFilesScanned) =>
               /\ ~CleanFeed.threw
               /\ feed.toolCalls = CleanFeed.toolCalls
               /\ feed.truncated <=> (CleanFeed.truncated
                                      \/ Len(FeedEntries) > MAX_TOOL_CALL_MESSAGES)
        /\ SeriesIgnoreTornFiles

\* a returned feed of a collection with a torn message file and a scanned
\* message with a torn part file and a tool part without callID
C12_Witness ==
    /\ FeedDone
    /\ feed.allowedRoots = NoRoots
    /\ \E k \in 1..Len(FeedEntries) : ~FeedEntries[k].ok
    /\ \E k \in 1..Len(feed.metas) :
           /\ feed.metas[k].id \in DOMAIN parts
           /\ \E j \in 1..Len(parts[feed.metas[k].id]) : ~parts[feed.metas[k].id][j].ok
           /\ \E j \in 1..Len(parts[feed.metas[k].id]) :
                  LET p == parts[feed.metas[k].id][j] IN p.ok /\ TornForFeed(p)
    /\ Len(feed.toolCalls) > 0
    /\ SeriesOf(messages, parts) # SeriesOf(messages, [m \in DOMAIN parts |-> << >>])

Reversed(seq) == [k \in 1..Len(seq) |-> seq[Len(seq) + 1 - k]]

\* the orders in which a listing may come: all of them for a short listing,
\* the listing and its reverse for a long one
ListingOrders(files) ==
    IF Len(files) <= MaxFeedFiles + 1
    THEN { [k \in 1..Len(files) |-> files[p[k]]] :
               p \in { q \in [1..Len(files) -> 1..Len(files)] :
                           \A i, j \in 1..Len(files) : q[i] = q[j] => i = j } }
    ELSE { files, Reversed(files) }

PartOrders == { parts, [m \in DOMAIN parts |-> Reversed(parts[m])] }

\* the feed of the store with the session's collection listed as files
FeedListedAs(files, partStorage) ==
    deriveToolCalls([messages EXCEPT ![feed.sessionId] = files], partStorage,
                    feed.sessionId, feed.allowedRoots)

SameForEveryListing ==
    feed.sessionId \in DOMAIN messages =>
        \A files \in ListingOrders(FeedEntries) : \A ps \in PartOrders :
            LET r == FeedListedAs(files, ps)
            IN  ~r.threw /\ r.toolCalls = feed.toolCalls /\ r.truncated = feed.truncated

NoTwoRowsAlike ==
    \A j, k \in 1..Len(feed.toolCalls) :
        (feed.toolCalls[j].messageId = feed.toolCalls[k].messageId
         /\ feed.toolCalls[j].callId = feed.toolCalls[k].callId) => j = k

\* the data model's identities: one message file per id in the collection, one
\* tool-call part file per callID within each of its messages
UniqueIdentities ==
    /\ \A j, k \in 1..Len(FeedEntries) :
           (FeedEntries[j].ok /\ FeedEntries[k].ok /\ FeedEntries[j].id = FeedEntries[k].id)
               => j = k
    /\ \A e \in 1..Len(FeedEntries) :
           FeedEntries[e].ok =>
               \A j, k \in ToolCallFiles(FeedEntries[e].id) :
                   parts[FeedEntries[e].id][j].callID = parts[FeedEntries[e].id][k].callID
                       => j = k

\* the newest 200 message files are the same in every listing order
SameNewestInEveryListing ==
    \/ Len(FeedEntries) <= MAX_TOOL_CALL_MESSAGES
    \/ \A j, k \in 1..Len(FeedEntries) : FeedEntries[j].mtime = FeedEntries[k].mtime => j = k

\* C15 as stated: for every store, no two rows of a returned feed share
\* (messageId, callId), and the feed is the same for every order of the
\* directory listings.
C15_NoTiesInAnyStore ==
    FeedDone => (NoTwoRowsAlike /\ SameForEveryListing)

\* C15: in a store where no two message files carry one id and no two
\* tool-call part files of a message carry one callID, no two rows of a
\* returned feed share (messageId, callId), and the feed is the same for every
\* order of the listings that leaves the same message files the newest 200.
C15_NoTiesAmongIdentities ==
    (FeedDone /\ UniqueIdentities) =>
        /\ NoTwoRowsAlike
        /\ SameNewestInEveryListing => SameForEveryListing

\* a feed of two messages of one creation time whose calls carry one callID
C15_Witness ==
    /\ FeedDone
    /\ UniqueIdentities
    /\ SameNewestInEveryListing
    /\ \E j, k \in 1..Len(feed.toolCalls) :
           /\ j < k
           /\ feed.toolCalls[j].createdAtMs = feed.toolCalls[k].createdAtMs
           /\ feed.toolCalls[j].callId = feed.toolCalls[k].callId
           /\ feed.toolCalls[j].messageId < feed.toolCalls[k].messageId

\* the keys of a JSON value at every depth
RECURSIVE KeysOf(_)
KeysOf(j) ==
    IF j.kind # "object" THEN {}
    ELSE UNION { {j.fields[k].key} \cup KeysOf(j.fields[k].value) : k \in 1..Len(j.fields) }

\* the keys of a row at every depth; its other values are strings, numbers or
\* null
KeysOfRow(row) == DOMAIN row \cup KeysOf(row.output) \cup KeysOf(row.error)

BannedKeys == {"input", "prompt", "state"}
SummaryKeys ==
    {"sessionId", "messageId", "callId", "tool", "status", "createdAtMs", "output", "error"}

\* the stored tool-call parts of the scanned messages that carry the row's
\* identity
StoredFor(row) ==
    { p \in UNION { { parts[feed.metas[k].id][j] : j \in ToolCallFiles(feed.metas[k].id) } :
                        k \in { i \in 1..Len(feed.metas) : feed.metas[i].id = row.messageId } } :
          p.callID.v = row.callId }

PassedThrough(row) ==
    \E p \in StoredFor(row) :
        /\ p.state.obj => (row.output = p.state.output /\ row.error = p.state.error)
        /\ ~p.state.obj => (row.output = JUndefined /\ row.error = JUndefined)

\* C16 as stated: no row of a returned feed has a key input, prompt or state
\* at any depth, nor the sort key, and its output and error are the stored
\* state.output and state.error.
C16_NoBannedKeyAtAnyDepth ==
    FeedDone =>
        \A k \in 1..Len(feed.toolCalls) :
            /\ KeysOfRow(feed.toolCalls[k]) \cap (BannedKeys \cup {"createdSortKey"}) = {}
            /\ PassedThrough(feed.toolCalls[k])

\* C16: a row of a returned feed has the keys sessionId, messageId, callId,
\* tool, status, createdAtMs, output and error and no other, so no input,
\* prompt, state or sort key; its output and error are the stored state.output
\* and state.error, with whatever keys these values hold.
C16_OnlySummaryKeys ==
    FeedDone =>
        \A k \in 1..Len(feed.toolCalls) :
            /\ DOMAIN feed.toolCalls[k] = SummaryKeys
            /\ KeysOfRow(feed.toolCalls[k]) \cap (BannedKeys \cup {"createdSortKey"})
                   \subseteq KeysOf(feed.toolCalls[k].output) \cup KeysOf(feed.toolCalls[k].error)
            /\ PassedThrough(feed.toolCalls[k])

\* a feed with the row of a part whose input holds a prompt and the row of a
\* part whose output is an object with a key input
C16_Witness ==
    /\ FeedDone
    /\ \E k \in 1..Len(feed.toolCalls) :
           /\ feed.toolCalls[k].output = JString("NOPE")
           /\ \E p \in StoredFor(feed.toolCalls[k]) : "prompt" \in KeysOf(p.state.input)
    /\ \E k \in 1..Len(feed.toolCalls) : "input" \in KeysOf(feed.toolCalls[k].output)

Guarded == Len(feed.allowedRoots) > 0

\* the scanned messages whose part directory lies under none of the roots
Refused ==
    { feed.metas[k].id : k \in { i \in 1..Len(feed.metas) :
          ~isAllowedPath(partDirPath(parts, feed.metas[i].id), feed.allowedRoots) } }

Collecting == feed.pc \in {"sort", "done"}

\* C17: with a non-empty allowedRoots, every operation on a part directory
\* comes after the guard's check of that directory, every scanned message's
\* directory is checked before the call goes on, a refused directory is never
\* looked at, and a call with a refused directory returns no list.
C17_GuardBeforeEveryRead ==
    Guarded =>
        /\ \A i \in 1..Len(feed.log) :
               feed.log[i].op # "assert" =>
                   /\ \E j \in 1..(i - 1) :
                          feed.log[j].op = "assert" /\ feed.log[j].dir = feed.log[i].dir
                   /\ feed.log[i].dir \notin Refused
        /\ Collecting =>
               \A k \in 1..Len(feed.metas) :
                   \E i \in 1..Len(feed.log) :
                       feed.log[i].op = "assert" /\ feed.log[i].dir = feed.metas[k].id
        /\ Refused # {} =>
               /\ ~Collecting
               /\ feed.calls = << >>
               /\ feed.toolCalls = << >>

\* a call that read the parts of one message and then failed on the part
\* directory of the next
C17_Witness ==
    /\ feed.pc = "failed"
    /\ Guarded
    /\ Refused # {}
    /\ \E i \in 1..Len(feed.log) : feed.log[i].op = "read"
    /\ feed.log[Len(feed.log)].op = "assert"
    /\ feed.log[Len(feed.log)].dir \in Refused

----------------------------------------------------------------------------
(* The window filter and the buckets *)

\* C18: every message of the main session that passes the window filter
\* start <= t < anchor has its index floor((t - start) / bucket) within
\* [0, floor(window / bucket)), so that the range check of addToBucket drops
\* the tool count of no in-window message.
C18_InWindowIndexWithinBuckets ==
    (pc = "background" /\ opts.mainSessionId = MainId) =>
        \A k \in 1..Len(MainDir) :
            InWindow(MainDir[k]) =>
                /\ IndexOf(MainDir[k]) \in 0..(bucketCount(opts.windowMs, opts.bucketMs) - 1)
                /\ At(overall, IndexOf(MainDir[k])) >= ToolParts(MainDir[k].id)

\* every scanned message is visited, in the order given; one with
\* created < start is skipped and the visit goes on
RECURSIVE visitAll(_, _, _, _, _)
visitAll(metas, i, o, perAgent, acc) ==
    IF i > Len(metas) THEN acc
    ELSE LET meta == metas[i]
             created == getCreated(meta)
             toolCount == countToolParts(o.part, meta.id)
         IN  IF isBefore(created, o.startMs) \/ isAtOrAfter(created, o.anchorMs)
                \/ toolCount <= 0
             THEN visitAll(metas, i + 1, o, perAgent, acc)
             ELSE LET bucketIndex == bucketIndexOf(created.v, o.startMs, o.bucketMs)
                      acc1 == [acc EXCEPT !.overall = addToBucket(@, bucketIndex, toolCount)]
                  IN  visitAll(metas, i + 1, o, perAgent,
                               IF perAgent
                               THEN addPerAgent(acc1, meta.agent, bucketIndex, toolCount)
                               ELSE acc1)

ScannedMetas == readRecentMessageMetas(getMessageDir(messages, opts.mainSessionId), MAX_MESSAGES)

Filtered(metas, perAgent) == visitAll(metas, 1, currentScan, perAgent, zeroAcc(frame.buckets))

\* C19: the series that the sorted loops with their break give are the series
\* of a visit of every scanned message, in scan order or the reverse, that
\* skips the messages with created < start.
C19_BreakIsAFilter ==
    pc = "bucketed" =>
        \A metas \in {ScannedMetas, Reversed(ScannedMetas)} :
            /\ overall = Filtered(metas, TRUE).overall
            /\ sisyphus = Filtered(metas, TRUE).sisyphus
            /\ prometheus = Filtered(metas, TRUE).prometheus
            /\ atlas = Filtered(metas, TRUE).atlas
            /\ background = Filtered(metas, FALSE).overall

\* a scan that meets a message before the window, or without a creation time,
\* ahead of a message inside it that is counted
C19_Witness ==
    /\ pc = "bucketed"
    /\ \E j, k \in 1..Len(ScannedMetas) :
           /\ j < k
           /\ isBefore(getCreated(ScannedMetas[j]), frame.startMs)
           /\ ~isBefore(getCreated(ScannedMetas[k]), frame.startMs)
           /\ ~isAtOrAfter(getCreated(ScannedMetas[k]), frame.anchorMs)
    /\ \E j, k \in 1..Len(ScannedMetas) :
           j # k /\ getCreated(ScannedMetas[j]) = getCreated(ScannedMetas[k])
    /\ \E i \in 1..Len(background) : background[i] > 0
    /\ \E i \in 1..Len(sisyphus) : sisyphus[i] > 0

----------------------------------------------------------------------------
(* The five series of one result *)

\* C21: in a result computed on a store that no writer touched during the
\* call, each series has one value per bucket, every value is a non-negative
\* integer, and in every bucket background-total is at most overall-main and
\* the three agent series together are at most overall-main.
C21_SeriesBounds ==
    pc = "done" =>
        /\ \A k \in 1..5 : Len(SeriesValues(result, k)) = result.buckets
        /\ \A i \in 1..result.buckets :
               /\ \A k \in 1..5 : SeriesValues(result, k)[i] \in Nat
               /\ SeriesValues(result, 5)[i] <= SeriesValues(result, 1)[i]
               /\ SeriesValues(result, 2)[i] + SeriesValues(result, 3)[i]
                      + SeriesValues(result, 4)[i] <= SeriesValues(result, 1)[i]

\* a result with a bucket that holds background activity and activity of an
\* agent of the main session
C21_Witness ==
    /\ pc = "done"
    /\ \E i \in 1..result.buckets :
           /\ SeriesValues(result, 5)[i] > 0
           /\ SeriesValues(result, 2)[i] + SeriesValues(result, 3)[i]
                  + SeriesValues(result, 4)[i] > 0
           /\ SeriesValues(result, 5)[i] < SeriesValues(result, 1)[i]

----------------------------------------------------------------------------
(* The two scans of the child sessions *)

----------------------------------------------------------------------------
(* The probes of findAvailablePort *)

ProbeSettled == probe.pc \in {"resolved", "rejected"}

\* the probes made so far went to preferredPort, preferredPort + 1, ... in
\* this order, and each was over, with an error, before the next began
ProbedInOrder ==
    \A k \in 1..Len(probe.servers) :
        /\ probe.servers[k].port = probe.preferredPort.v + k - 1
        /\ k < Len(probe.servers) => probe.servers[k].state = "errored"

AllProbesFailed ==
    /\ ~preferredPortRefused(probe.preferredPort)
    /\ Len(probe.servers) >= probe.maxTries
    /\ \A k \in 1..Len(probe.servers) : probe.servers[k].state = "errored"

ProbeSafety ==
    /\ Len(probe.servers) <= probe.maxTries
    /\ ProbedInOrder
    /\ probe.pc = "resolved" =>
           /\ probe.preferredPort.v <= probe.port
           /\ probe.port < probe.preferredPort.v + probe.maxTries
           /\ \A q \in probe.preferredPort.v..(probe.port - 1) :
                  \E k \in 1..Len(probe.servers) :
                      probe.servers[k].port = q /\ probe.servers[k].state = "errored"
           /\ current.port = probe.port
           /\ current.state = "closed"
    /\ AllProbesFailed => probe.pc \in {"call", "loop", "rejected"}
    /\ preferredPortRefused(probe.preferredPort) =>
           probe.servers = << >> /\ probe.pc \in {"call", "rejected"}

\* C23: the probes go to preferredPort, preferredPort + 1, ... one at a time;
\* a port the call resolves with lies in preferredPort..preferredPort +
\* maxTries - 1, every lower port of the range failed its probe and the probe
\* server of the port is closed; once maxTries probes have failed the call
\* rejects, and with a preferredPort that is not a positive integer it
\* rejects without a probe.
C23_FirstListeningPort ==
    /\ []ProbeSafety
    /\ AllProbesFailed ~> probe.pc = "rejected"
    /\ preferredPortRefused(probe.preferredPort) ~> probe.pc = "rejected"

\* a call that resolved with the port after preferredPort, which another
\* process held when it was probed
C23_Witness ==
    /\ probe.pc = "resolved"
    /\ probe.port = probe.preferredPort.v + 1
    /\ Len(probe.servers) = 2
    /\ probe.servers[1].state = "errored"
    /\ probe.host = LocalHost

====
